---- MODULE Spec2Model ----
(***************************************************************************)
(* The tree-walking expression evaluator of ecma-evaluator                 *)
(* (src/src/Evaluator.js, the current implementation at lines 553-1114):   *)
(* one Evaluator instance, its scope chain, the objects of the caller's    *)
(* context, and evaluate() as one atomic action over a parsed expression.  *)
(* Parsing (acorn) is outside the model: expressions are ESTree nodes.     *)
(***************************************************************************)
EXTENDS Integers, Sequences, FiniteSets, TLC

VARIABLES
    variables,  \* the context object the Evaluator was constructed with
    scopes,     \* this.scopes: the frames, innermost first
    heap,       \* the objects (arrays, plain objects) by address
    caller,     \* "idle", or "holding" the outcome of the last evaluate call
    last,       \* the last evaluate call: expression, outcome, what it did
    parsed      \* the last call of TemplateParser.parse or of evaluatorTemplate

vars == <<variables, scopes, heap, caller, last, parsed>>

(***************************************************************************)
(* Bounds of the model.                                                    *)
(***************************************************************************)
\* evaluate is not called any more once more than this many closure frames are left
\* on the chain
MaxLeaked == 1
\* evaluate is not called any more once a context array is longer than this
MaxLen == 3

(***************************************************************************)
(* Values of the host language.                                            *)
(***************************************************************************)
Undef == [k |-> "undefined"]
Null == [k |-> "null"]
Bool(b) == [k |-> "boolean", b |-> b]
Num(n) == [k |-> "number", n |-> n]
\* the number NaN (typeof "number"), kept apart from the finite numbers
NaN == [k |-> "NaN"]
\* the numbers Infinity and -Infinity
Infinity(negative) == [k |-> "infinity", negative |-> negative]
\* the number -0; Num(0) is +0
NegZero == [k |-> "negzero"]
\* a finite number that is no integer: the double nearest to num / den, in
\* lowest terms with den > 1
Fraction(num, den) == [k |-> "fraction", num |-> num, den |-> den]
\* a BigInt (1n, 0n)
BigInt(i) == [k |-> "bigint", i |-> i]
Str(s) == [k |-> "string", s |-> s]
\* a reference to the heap object at address a
Ref(a) == [k |-> "object", a |-> a]
\* a built-in function of the host, identified by its path from globalThis
Native(path) == [k |-> "native", path |-> path]
\* a built-in object of the host that is not a function (Reflect, Array.prototype, ...)
Host(path) == [k |-> "host", path |-> path]
\* f.bind(thisArg)
Bound(f, thisArg) == [k |-> "bound", target |-> f, this |-> thisArg]
\* the function handleArrowFunctionExpression returns for an arrow node; def is
\* a history field (the chain at the definition), never read by the evaluator
ArrowFn(node, def) == [k |-> "arrow", node |-> node, def |-> def]

IsFunction(v) == v.k \in {"native", "bound", "arrow"}
IsNullish(v) == v.k \in {"undefined", "null"}

\* ToBoolean of the host, as used by `left ? ... : ...`
Truthy(v) ==
    CASE v.k = "undefined" -> FALSE
      [] v.k = "null" -> FALSE
      [] v.k = "boolean" -> v.b
      [] v.k = "number" -> v.n # 0
      [] v.k = "NaN" -> FALSE
      [] v.k = "negzero" -> FALSE
      [] v.k = "bigint" -> v.i # 0
      [] v.k = "string" -> v.s # ""
      [] OTHER -> TRUE

(***************************************************************************)
(* Errors.                                                                 *)
(***************************************************************************)
MUTABLE_METHOD == "Mutable method is not allowed"
NEW_FUNCTION_NOT_ALLOWED == "Cannot use new with Function constructor"
NOT_A_FUNCTION == "is not a function"
PROPERTY_READ_ERROR == "Cannot read property"
VARIABLE_NOT_DEFINED == "is not defined"
FUNCTION_CONSTRUCTOR_NOT_ALLOWED == "Function constructor is not allowed"
THIS_NOT_ALLOWED == "'this' keyword is not allowed"
DELETE_NOT_SUPPORTED == "Delete operator is not allow"
NOT_A_VALID_SYNTAX == "is not a valid syntax"

NoErr == [type |-> "none"]
Err(type, message) == [type |-> type, message |-> message]

\* the outcome of a handler: the evaluator state after it, and a value or an error
Ret(st, v) == [st |-> st, v |-> v, err |-> NoErr]
Throw(st, e) == [st |-> st, v |-> Undef, err |-> e]
Ok(r) == r.err = NoErr
\* an entry of the record of what the evaluation did (history, not program state)
Logged(st, e) == [st EXCEPT !.log = Append(@, e)]

(***************************************************************************)
(* ESTree nodes, as acorn produces them.                                   *)
(***************************************************************************)
Id(name) == [type |-> "Identifier", name |-> name]
Lit(value, raw) == [type |-> "Literal", value |-> value, raw |-> raw]
Member(object, property, computed, optional) ==
    [type |-> "MemberExpression", object |-> object, property |-> property,
     computed |-> computed, optional |-> optional]
Dot(object, name) == Member(object, Id(name), FALSE, FALSE)
Call(callee, arguments) ==
    [type |-> "CallExpression", callee |-> callee, arguments |-> arguments, optional |-> FALSE]
\* callee?.(arguments)
OptionalCall(callee, arguments) ==
    [type |-> "CallExpression", callee |-> callee, arguments |-> arguments, optional |-> TRUE]
New(callee, arguments) ==
    [type |-> "NewExpression", callee |-> callee, arguments |-> arguments]
Logical(operator, left, right) ==
    [type |-> "LogicalExpression", operator |-> operator, left |-> left, right |-> right]
Binary(operator, left, right) ==
    [type |-> "BinaryExpression", operator |-> operator, left |-> left, right |-> right]
Arrow(params, body) ==
    [type |-> "ArrowFunctionExpression", params |-> params, body |-> body]
\* ...argument, as a parameter
Rest(argument) == [type |-> "RestElement", argument |-> argument]
Unary(operator, argument) ==
    [type |-> "UnaryExpression", operator |-> operator, argument |-> argument]
ArrayExpr(elements) == [type |-> "ArrayExpression", elements |-> elements]
Spread(argument) == [type |-> "SpreadElement", argument |-> argument]
Chain(expression) == [type |-> "ChainExpression", expression |-> expression]
This == [type |-> "ThisExpression"]
ExprStmt(expression) == [type |-> "ExpressionStatement", expression |-> expression]

(***************************************************************************)
(* The host: globalThis and the own properties of its built-in objects.    *)
(***************************************************************************)
FunctionCtor == Native("Function")

\* own properties of the host's built-in objects, by the path of the object
HostOwn(path) ==
    CASE path = "Array" ->
            [prototype |-> Host("Array.prototype")]
      [] path = "Array.prototype" ->
            [push |-> Native("Array.prototype.push"),
             pop |-> Native("Array.prototype.pop"),
             slice |-> Native("Array.prototype.slice"),
             concat |-> Native("Array.prototype.concat"),
             map |-> Native("Array.prototype.map"),
             forEach |-> Native("Array.prototype.forEach"),
             constructor |-> Native("Array")]
      [] path = "Object" ->
            [prototype |-> Host("Object.prototype"),
             assign |-> Native("Object.assign"),
             freeze |-> Native("Object.freeze"),
             isFrozen |-> Native("Object.isFrozen")]
      [] path = "Object.prototype" ->
            [constructor |-> Native("Object"),
             toString |-> Native("Object.prototype.toString"),
             hasOwnProperty |-> Native("Object.prototype.hasOwnProperty")]
      [] path = "Function" ->
            [prototype |-> Host("Function.prototype")]
      [] path = "Function.prototype" ->
            [call |-> Native("Function.prototype.call"),
             apply |-> Native("Function.prototype.apply"),
             bind |-> Native("Function.prototype.bind"),
             constructor |-> FunctionCtor]
      [] path = "Reflect" ->
            [apply |-> Native("Reflect.apply"),
             construct |-> Native("Reflect.construct")]
      [] OTHER -> <<>>

\* globalThis of the host: more than the evaluator lets through
GlobalThis ==
    [Array |-> Native("Array"),
     Object |-> Native("Object"),
     Function |-> FunctionCtor,
     Reflect |-> Host("Reflect"),
     undefined |-> Undef,
     NaN |-> NaN,
     Infinity |-> Infinity(FALSE),
     eval |-> Native("eval"),
     setTimeout |-> Native("setTimeout"),
     process |-> Host("process"),
     globalThis |-> Host("globalThis")]

\* the keys of globals.builtin the model follows; Iterator stands for a key the
\* running host does not provide
BuiltinKeys ==
    {"Array", "Object", "Function", "Reflect", "undefined", "NaN", "Infinity", "eval",
     "globalThis", "Iterator"}

\* the keys createGlobalScope copies from globalThis
GlobalKeysExcludingEvalAndGlobalThis ==
    {key \in BuiltinKeys : key \in DOMAIN GlobalThis /\ key # "eval" /\ key # "globalThis"}

\* mutant: eval is let through
GlobalKeysWithEval ==
    {key \in BuiltinKeys : key \in DOMAIN GlobalThis /\ key # "globalThis"}

GlobalKeys == GlobalKeysExcludingEvalAndGlobalThis

\* the frame createGlobalScope returns; its globalThis is the frame itself
createGlobalScope ==
    [key \in GlobalKeys \cup {"globalThis"} |->
        IF key = "globalThis" THEN Host("scope") ELSE GlobalThis[key]]

\* the paths of mutableMethods the model follows; Date stands for an object the
\* running host does not provide
mutableMethods ==
    << <<"Array", "prototype", "push">>,
       <<"Array", "prototype", "pop">>,
       <<"Object", "freeze">>,
       <<"Object", "assign">>,
       <<"Date", "prototype", "setYear">> >>

\* the walk of getMutableMethods along one path: own properties only, null when one is absent
RECURSIVE ResolvePath(_, _)
ResolvePath(current, properties) ==
    IF properties = <<>> THEN current
    ELSE IF current.k \in {"native", "host"} /\ Head(properties) \in DOMAIN HostOwn(current.path)
         THEN ResolvePath(HostOwn(current.path)[Head(properties)], Tail(properties))
         ELSE Null

getMutableMethods ==
    LET resolved(path) ==
            IF Head(path) \in DOMAIN GlobalThis
            THEN ResolvePath(GlobalThis[Head(path)], Tail(path))
            ELSE Null
    IN  {resolved(mutableMethods[i]) : i \in 1..Len(mutableMethods)}
            \ {v \in {resolved(mutableMethods[i]) : i \in 1..Len(mutableMethods)} : ~IsFunction(v)}

(***************************************************************************)
(* Heap objects and the host's property access and conversions.            *)
(***************************************************************************)
ArrayObj(elems) == [cls |-> "Array", elems |-> elems, props |-> <<>>, frozen |-> FALSE]
PlainObj(props) == [cls |-> "Object", elems |-> <<>>, props |-> props, frozen |-> FALSE]
Freed == [cls |-> "free", elems |-> <<>>, props |-> <<>>, frozen |-> FALSE]

IsArray(h, v) == v.k = "object" /\ h[v.a].cls = "Array"
IsPlain(h, v) == v.k = "object" /\ h[v.a].cls = "Object"

\* T.slice(from, to) of a string, for 0 <= from <= to <= Len(T)
Slice(T, from, to) == SubSeq(T, from + 1, to)

\* the string of a sequence of characters
RECURSIVE Text(_)
Text(chars) == IF chars = <<>> THEN "" ELSE Head(chars) \o Text(Tail(chars))

\* the text of an expression that is given as its tree: it is not written out,
\* no node of such a tree reaching the default case of visit, which alone reads it
TextOf(expression) == <<>>

\* this.source while evaluate runs: the text handed to it, a sequence of characters
SourceString(chars) == [k |-> "string", chars |-> chars]

\* args[i], undefined when the call passed fewer arguments
Arg(args, i) == IF i <= Len(args) THEN args[i] ELSE Undef

RECURSIVE JoinFrom(_, _, _)
RECURSIVE ToStr(_, _)
\* String(v) of the host; the text of a function is host-defined and not followed
ToStr(h, v) ==
    CASE v.k = "undefined" -> "undefined"
      [] v.k = "null" -> "null"
      [] v.k = "boolean" -> IF v.b THEN "true" ELSE "false"
      [] v.k = "number" -> ToString(v.n)
      [] v.k = "NaN" -> "NaN"
      [] v.k = "infinity" -> IF v.negative THEN "-Infinity" ELSE "Infinity"
      [] v.k = "negzero" -> "0"
      [] v.k = "bigint" -> ToString(v.i)
      [] v.k = "string" -> v.s
      [] v.k = "object" ->
            IF h[v.a].cls = "Array" THEN JoinFrom(h, h[v.a].elems, 1) ELSE "[object Object]"
      [] v.k = "host" -> "[object Object]"
      [] OTHER -> "function"

\* Array.prototype.join(","): null and undefined elements are empty
JoinFrom(h, elems, i) ==
    IF i > Len(elems) THEN ""
    ELSE (IF IsNullish(elems[i]) THEN "" ELSE ToStr(h, elems[i]))
            \o (IF i < Len(elems) THEN "," ELSE "")
            \o JoinFrom(h, elems, i + 1)

\* StringToNumber of the host on the empty string and on one decimal digit;
\* the other strings of the model are no numerals
StringToNumber(s) ==
    IF s = "" THEN Num(0)
    ELSE IF \E d \in 0..9 : ToString(d) = s THEN Num(CHOOSE d \in 0..9 : ToString(d) = s)
    ELSE NaN

\* ToNumber of the host on the primitives the model follows (a BigInt is no
\* operand of it: see BinaryOperation)
ToNum(v) ==
    CASE v.k \in {"number", "NaN", "infinity", "negzero", "fraction"} -> v
      [] v.k = "boolean" -> Num(IF v.b THEN 1 ELSE 0)
      [] v.k = "null" -> Num(0)
      [] v.k = "string" -> StringToNumber(v.s)
      [] OTHER -> NaN

(***************************************************************************)
(* Arithmetic of the host on numbers (IEEE 754 doubles) and on BigInts.    *)
(***************************************************************************)
Abs(i) == IF i < 0 THEN -i ELSE i

RECURSIVE Gcd(_, _)
Gcd(i, j) == IF j = 0 THEN i ELSE Gcd(j, i % j)

IsZero(v) == v = Num(0) \/ v = NegZero
IsInfinite(v) == v.k = "infinity"

\* the sign bit of a number that is not NaN
SignBit(v) ==
    CASE v.k = "number" -> v.n < 0
      [] v.k = "negzero" -> TRUE
      [] v.k = "fraction" -> v.num < 0
      [] v.k = "infinity" -> v.negative

\* a finite number as numerator and denominator
Numerator(v) == CASE v.k = "number" -> v.n [] v.k = "negzero" -> 0 [] v.k = "fraction" -> v.num
Denominator(v) == IF v.k = "fraction" THEN v.den ELSE 1

\* the number num / den (den # 0); a zero takes the given sign
Quotient(num, den, negative) ==
    IF num = 0 THEN (IF negative THEN NegZero ELSE Num(0))
    ELSE LET g == Gcd(Abs(num), Abs(den))
             n == (IF den < 0 THEN -num ELSE num) \div g
             d == Abs(den) \div g
         IN  IF d = 1 THEN Num(n) ELSE Fraction(n, d)

\* mutant: a division by a zero takes the sign of the dividend alone
SignOfDividend(a, b) == SignBit(a)

\* the sign of a quotient
SignOfQuotient(a, b) == SignBit(a) # SignBit(b)

\* a / b on numbers
Divide(a, b) ==
    IF a = NaN \/ b = NaN THEN NaN
    ELSE IF IsInfinite(a) THEN (IF IsInfinite(b) THEN NaN ELSE Infinity(SignOfQuotient(a, b)))
    ELSE IF IsInfinite(b) THEN Quotient(0, 1, SignOfQuotient(a, b))
    ELSE IF IsZero(b) THEN (IF IsZero(a) THEN NaN ELSE Infinity(SignOfQuotient(a, b)))
    ELSE Quotient(Numerator(a) * Denominator(b), Denominator(a) * Numerator(b),
                  SignOfQuotient(a, b))

\* a % b on numbers: the result has the sign of the dividend
Remainder(a, b) ==
    IF a = NaN \/ b = NaN \/ IsInfinite(a) \/ IsZero(b) THEN NaN
    ELSE IF IsInfinite(b) \/ IsZero(a) THEN a
    ELSE LET p == Abs(Numerator(a) * Denominator(b))
             q == Abs(Numerator(b) * Denominator(a))
             r == p % q
         IN  Quotient(IF SignBit(a) THEN -r ELSE r, Denominator(a) * Denominator(b), SignBit(a))

\* a + b on numbers
Add(a, b) ==
    IF a = NaN \/ b = NaN THEN NaN
    ELSE IF IsInfinite(a) THEN (IF IsInfinite(b) /\ a # b THEN NaN ELSE a)
    ELSE IF IsInfinite(b) THEN b
    ELSE Quotient(Numerator(a) * Denominator(b) + Numerator(b) * Denominator(a),
                  Denominator(a) * Denominator(b), SignBit(a) /\ SignBit(b))

\* the quotient and the remainder of BigInts truncate toward zero
BigIntDivide(i, j) == (IF (i < 0) # (j < 0) THEN -1 ELSE 1) * (Abs(i) \div Abs(j))
BigIntRemainder(i, j) == (IF i < 0 THEN -1 ELSE 1) * (Abs(i) % Abs(j))

\* a === b of the host
StrictEquals(a, b) ==
    CASE a = NaN \/ b = NaN -> FALSE
      [] IsZero(a) /\ IsZero(b) -> TRUE
      [] OTHER -> a = b

\* the chain of built-in prototypes behind a value, as paths of HostOwn
ProtoChain(h, v) ==
    CASE v.k = "object" ->
            IF h[v.a].cls = "Array" THEN <<"Array.prototype", "Object.prototype">>
            ELSE <<"Object.prototype">>
      [] v.k = "native" -> <<v.path, "Function.prototype", "Object.prototype">>
      [] v.k \in {"bound", "arrow"} -> <<"Function.prototype", "Object.prototype">>
      [] v.k = "host" -> IF v.path = "scope" THEN <<>> ELSE <<v.path, "Object.prototype">>
      [] OTHER -> <<>>

RECURSIVE FromProtos(_, _)
FromProtos(paths, name) ==
    IF paths = <<>> THEN Undef
    ELSE IF name \in DOMAIN HostOwn(Head(paths)) THEN HostOwn(Head(paths))[name]
         ELSE FromProtos(Tail(paths), name)

\* the global scope frame of a chain: its outermost frame
GlobalFrame(chain) == chain[Len(chain)]

\* object[property] of the host, for an object that is neither null nor undefined
GetProp(st, object, property) ==
    LET h == st.heap
        name == ToStr(h, property)
    IN  CASE IsArray(h, object) /\ property.k = "number" ->
                IF property.n >= 0 /\ property.n < Len(h[object.a].elems)
                THEN h[object.a].elems[property.n + 1] ELSE Undef
          [] IsArray(h, object) /\ name = "length" -> Num(Len(h[object.a].elems))
          [] IsPlain(h, object) /\ name \in DOMAIN h[object.a].props -> h[object.a].props[name]
          [] object.k = "string" /\ name = "length" -> Num(Len(object.s))
          [] object = Host("scope") /\ name \in DOMAIN GlobalFrame(st.scopes) ->
                GlobalFrame(st.scopes)[name]
          [] OTHER -> FromProtos(ProtoChain(h, object), name)

\* the operators of BINARY_OPERATION_MAP the model follows
BinaryOperators == {"+", "/", "%", "===", "!=="}

\* the errors of the host's arithmetic
DIVISION_BY_ZERO == Err("RangeError", "Division by zero")
CANNOT_MIX_BIGINT ==
    Err("TypeError", "Cannot mix BigInt and other types, use explicit conversions")

\* BINARY_OPERATION_MAP[op](a, b): the value, or the error the host raises
BinaryOperation(h, op, a, b) ==
    LET value(v) == [v |-> v, err |-> NoErr]
        raise(err) == [v |-> Undef, err |-> err]
        concatenates == op = "+" /\ (a.k \in {"string", "object"} \/ b.k \in {"string", "object"})
    IN  CASE op = "===" -> value(Bool(StrictEquals(a, b)))
          [] op = "!==" -> value(Bool(~StrictEquals(a, b)))
          [] concatenates -> value(Str(ToStr(h, a) \o ToStr(h, b)))
          [] ~concatenates /\ op \in {"+", "/", "%"} /\ a.k = "bigint" /\ b.k = "bigint" ->
                IF op = "+" THEN value(BigInt(a.i + b.i))
                ELSE IF b.i = 0 THEN raise(DIVISION_BY_ZERO)
                ELSE IF op = "/" THEN value(BigInt(BigIntDivide(a.i, b.i)))
                ELSE value(BigInt(BigIntRemainder(a.i, b.i)))
          [] ~concatenates /\ op \in {"+", "/", "%"} /\ (a.k = "bigint") # (b.k = "bigint") ->
                raise(CANNOT_MIX_BIGINT)
          [] ~concatenates /\ op = "+" /\ a.k # "bigint" /\ b.k # "bigint" ->
                value(Add(ToNum(a), ToNum(b)))
          [] op = "/" /\ a.k # "bigint" /\ b.k # "bigint" -> value(Divide(ToNum(a), ToNum(b)))
          [] op = "%" /\ a.k # "bigint" /\ b.k # "bigint" -> value(Remainder(ToNum(a), ToNum(b)))

\* the objects reachable from a set of values
RECURSIVE Reach(_, _, _)
Reach(h, seen, frontier) ==
    LET fresh == frontier \ seen
        refsOf(a) == {h[a].elems[i].a : i \in {j \in DOMAIN h[a].elems : h[a].elems[j].k = "object"}}
                        \cup {h[a].props[n].a : n \in {m \in DOMAIN h[a].props : h[a].props[m].k = "object"}}
    IN  IF fresh = {} THEN seen
        ELSE Reach(h, seen \cup fresh, UNION {refsOf(a) : a \in fresh})

\* what a frame, a value or a chain refers to directly
RefsOfValue(v) ==
    CASE v.k = "object" -> {v.a}
      [] v.k = "bound" -> {w.a : w \in {u \in {v.target, v.this} : u.k = "object"}}
      [] OTHER -> {}
RefsOfChain(chain) ==
    UNION {UNION {RefsOfValue(chain[i][n]) : n \in DOMAIN chain[i]} : i \in DOMAIN chain}

\* the heap once the objects nothing refers to any more are reclaimed
Collect(h, roots) ==
    LET live == Reach(h, {}, roots)
        kept == [a \in DOMAIN h |-> IF a \in live THEN h[a] ELSE Freed]
        top == IF live = {} THEN 0 ELSE CHOOSE a \in live : \A b \in live : b <= a
    IN  SubSeq(kept, 1, top)

(***************************************************************************)
(* The handlers of the Evaluator. st is the evaluator state a handler      *)
(* starts in: [scopes, heap, log]; it returns Ret(st', value) or           *)
(* Throw(st', error).                                                      *)
(***************************************************************************)
RECURSIVE enter(_, _)
RECURSIVE visitEach(_, _, _, _, _)
RECURSIVE construct(_, _, _, _)
RECURSIVE hostIterate(_, _, _, _, _, _, _)

\* this.visit(node): one more activation of visit on the call stack
visit(node, st) == enter([op |-> "visit", node |-> node], st)

\* func.apply(thisArg, args): one more activation of a function on the call stack
callFunction(f, thisArg, args, st, by) ==
    enter([op |-> "apply", f |-> f, thisArg |-> thisArg, args |-> args, by |-> by], st)
RECURSIVE getNodeString(_)

HostTypeError(message) == Err("TypeError", message)

\* the text of a callee, for the "is not a function" message; the null of the
\* default case reads "null" in the message
getNodeString(node) ==
    CASE node.type = "Identifier" -> node.name
      [] node.type = "Literal" -> node.raw
      [] node.type = "ArrayExpression" ->
            LET joined[i \in 0..Len(node.elements)] ==
                    IF i = 0 THEN ""
                    ELSE joined[i - 1] \o (IF i > 1 THEN "," ELSE "")
                            \o getNodeString(node.elements[i])
            IN  "[" \o joined[Len(node.elements)] \o "]"
      [] node.type = "MemberExpression" ->
            IF node.computed
            THEN getNodeString(node.object) \o "[" \o getNodeString(node.property) \o "]"
            ELSE getNodeString(node.object) \o "." \o getNodeString(node.property)
      [] OTHER -> "null"

\* mutant: name in scope, which a name of Object.prototype satisfies as well
hasProperty(scope, name) ==
    name \in DOMAIN scope \/ name \in DOMAIN HostOwn("Object.prototype")

\* Object.hasOwn(scope, name)
hasOwn(scope, name) == name \in DOMAIN scope

\* scope[name]: the frame's own property, or the one of Object.prototype
ReadScope(scope, name) ==
    IF name \in DOMAIN scope THEN scope[name] ELSE FromProtos(<<"Object.prototype">>, name)

\* mutant: a name no frame owns reads as undefined
handleIdentifierLenient(node, st) ==
    LET name == node.name
        owners == {i \in 1..Len(st.scopes) : name \in DOMAIN st.scopes[i]}
        first == CHOOSE i \in owners : \A j \in owners : i <= j
        value == IF owners = {} THEN Undef ELSE st.scopes[first][name]
    IN  Ret(Logged(st, [ev |-> "identifier", name |-> name, chain |-> st.scopes,
                        value |-> value, err |-> NoErr]), value)

\* the first frame of the chain that owns the name wins; none: ReferenceError
handleIdentifier(node, st) ==
    LET name == node.name
        owners == {i \in 1..Len(st.scopes) : hasOwn(st.scopes[i], name)}
        first == CHOOSE i \in owners : \A j \in owners : i <= j
        notDefined == Err("ReferenceError", name \o " " \o VARIABLE_NOT_DEFINED)
    IN  IF owners # {}
        THEN Ret(Logged(st, [ev |-> "identifier", name |-> name, chain |-> st.scopes,
                             value |-> ReadScope(st.scopes[first], name), err |-> NoErr]),
                 ReadScope(st.scopes[first], name))
        ELSE Throw(Logged(st, [ev |-> "identifier", name |-> name, chain |-> st.scopes,
                               value |-> Undef, err |-> notDefined]),
                   notDefined)

\* node.optional of a member access: a?.b, a?.[k]
IsOptionalAccess(node) == node.optional

\* the object first, then the property (computed or not), then the test of the
\* object for null and undefined
handleMemberExpression(node, st) ==
    LET ro == visit(node.object, st)
        isStaticProperty == node.property.type = "Identifier" /\ ~node.computed
        rp == IF isStaticProperty THEN Ret(ro.st, Str(node.property.name))
              ELSE visit(node.property, ro.st)
        \* what this access did once its object had a value
        entry(value, err) ==
            [ev |-> "member", object |-> ro.v, optional |-> node.optional,
             keyed |-> Ok(rp), key |-> ToStr(rp.st.heap, rp.v), value |-> value, err |-> err]
        raise(err) == Throw(Logged(rp.st, entry(Undef, err)), err)
    IN  IF ~Ok(ro) THEN ro
        ELSE IF ~Ok(rp) THEN raise(rp.err)
        ELSE IF IsNullish(ro.v)
             THEN IF IsOptionalAccess(node) THEN Ret(Logged(rp.st, entry(Undef, NoErr)), Undef)
                  ELSE raise(Err("TypeError",
                            PROPERTY_READ_ERROR \o " '" \o ToStr(rp.st.heap, rp.v)
                                \o "' of " \o ToStr(rp.st.heap, ro.v)))
             ELSE Ret(Logged(rp.st, entry(GetProp(rp.st, ro.v, rp.v), NoErr)),
                      GetProp(rp.st, ro.v, rp.v))

\* mutant: the right operand is always evaluated
RightOperandAlways(operator, left) == TRUE

\* whether handleLogicalExpression goes on to visit node.right
RightOperandNeeded(operator, left) ==
    CASE operator = "&&" -> Truthy(left)
      [] operator = "||" -> ~Truthy(left)
      [] operator = "??" -> ~(left # Null /\ left # Undef)

handleLogicalExpression(node, st) ==
    LET rl == visit(node.left, st)
        needed == RightOperandNeeded(node.operator, rl.v)
        rr == visit(node.right, rl.st)
        entry(r) == [ev |-> "logical", operator |-> node.operator, left |-> rl.v,
                     rightVisited |-> needed, value |-> r.v, err |-> r.err]
    IN  IF node.operator \notin {"&&", "||", "??"}
        THEN Throw(st, Err("Error", "Unsupported logical operator: " \o node.operator))
        ELSE IF ~Ok(rl) THEN rl
        ELSE IF needed THEN [rr EXCEPT !.st = Logged(rr.st, entry(rr))]
        ELSE Ret(Logged(rl.st, entry(rl)), rl.v)

handleBinaryExpression(node, st) ==
    LET rl == visit(node.left, st)
        rr == visit(node.right, rl.st)
    IN  IF ~Ok(rl) THEN rl
        ELSE IF ~Ok(rr) THEN rr
        ELSE IF node.operator \in BinaryOperators
             THEN LET r == BinaryOperation(rr.st.heap, node.operator, rl.v, rr.v)
                      s == Logged(rr.st, [ev |-> "binary", operator |-> node.operator,
                                          left |-> rl.v, right |-> rr.v,
                                          value |-> r.v, err |-> r.err])
                  IN  IF r.err = NoErr THEN Ret(s, r.v) ELSE Throw(s, r.err)
             ELSE Throw(rr.st, Err("Error", "Unsupported operator: " \o node.operator))

\* the elements of an array literal or the arguments of a call, left to right;
\* with expand, a spread element contributes the elements of its value (the
\* arguments of new are mapped without it). visited counts the nodes whose visit
\* was started
visitEach(nodes, expand, i, acc, st) ==
    IF i > Len(nodes) THEN [st |-> st, v |-> acc, err |-> NoErr, visited |-> i - 1]
    ELSE LET r == visit(nodes[i], st)
         IN  IF ~Ok(r) THEN [st |-> r.st, v |-> Undef, err |-> r.err, visited |-> i]
             ELSE IF expand /\ nodes[i].type = "SpreadElement"
                  THEN IF IsArray(r.st.heap, r.v)
                       THEN visitEach(nodes, expand, i + 1, acc \o r.st.heap[r.v.a].elems, r.st)
                       ELSE [st |-> r.st, v |-> Undef, visited |-> i,
                             err |-> HostTypeError("value is not iterable")]
                  ELSE visitEach(nodes, expand, i + 1, Append(acc, r.v), r.st)

handleArrayExpression(node, st) ==
    LET r == visitEach(node.elements, TRUE, 1, <<>>, st)
    IN  IF ~Ok(r) THEN Throw(r.st, r.err)
        ELSE Ret([r.st EXCEPT !.heap = Append(@, ArrayObj(r.v))], Ref(Len(r.st.heap) + 1))

\* the function value of an arrow node: it holds the node (and the Evaluator), no chain
handleArrowFunctionExpression(node, st) == Ret(st, ArrowFn(node, st.scopes))

\* the name a parameter node binds (a node without a name binds "undefined")
ParamName(param) == IF "name" \in DOMAIN param THEN param.name ELSE "undefined"

\* the frame of one invocation: parameters bound positionally, a later
\* parameter of the same name overwriting an earlier one
NewScope(params, args) ==
    [n \in {ParamName(params[i]) : i \in 1..Len(params)} |->
        LET i == CHOOSE j \in 1..Len(params) :
                    /\ ParamName(params[j]) = n
                    /\ \A m \in 1..Len(params) : ParamName(params[m]) = n => m <= j
        IN  Arg(args, i)]

\* mutant: the frame stays on the chain
shiftNothing(chain) == chain

\* this.scopes.shift(): the innermost frame leaves the chain
shift(chain) == Tail(chain)

\* the closure handleArrowFunctionExpression returns, invoked with args:
\* unshift the frame, visit the body, shift; a raising body skips the shift
arrowClosure(f, args, st) ==
    LET node == f.node
        newScope == NewScope(node.params, args)
        pushed == [st EXCEPT !.scopes = <<newScope>> \o @]
        r == visit(node.body, pushed)
        entry(after) == [ev |-> "arrowcall", def |-> f.def, frame |-> newScope,
                         params |-> node.params, args |-> args,
                         before |-> st.scopes, chain |-> pushed.scopes,
                         after |-> after, err |-> r.err]
    IN  IF Ok(r)
        THEN Ret(Logged([r.st EXCEPT !.scopes = shift(@)], entry(shift(r.st.scopes))), r.v)
        ELSE Throw(Logged(r.st, entry(r.st.scopes)), r.err)

\* the elements of an array-like argument of Reflect.apply or Function.prototype.apply
ArgumentsList(h, v) == IF IsArray(h, v) THEN h[v.a].elems ELSE <<>>

\* Array.prototype.map and forEach: the callback on each element in turn
hostIterate(cb, thisArg, arr, i, n, acc, st) ==
    IF i > n THEN Ret(st, acc)
    ELSE LET elems == st.heap[arr.a].elems
             r == callFunction(cb, thisArg, <<Arg(elems, i), Num(i - 1), arr>>, st, "host")
         IN  IF Ok(r) THEN hostIterate(cb, thisArg, arr, i + 1, n, Append(acc, r.v), r.st)
             ELSE r

\* the built-in functions of the host, by path
callNative(path, thisArg, args, st) ==
    LET h == st.heap
        alloc(obj) == Ret([st EXCEPT !.heap = Append(@, obj)], Ref(Len(h) + 1))
        notArray == Throw(st, HostTypeError("receiver is not an array"))
    IN  CASE path = "Array.prototype.push" ->
                IF ~IsArray(h, thisArg) THEN notArray
                ELSE IF h[thisArg.a].frozen
                     THEN Throw(st, HostTypeError("object is not extensible"))
                     ELSE Ret([st EXCEPT !.heap[thisArg.a].elems = @ \o args],
                              Num(Len(h[thisArg.a].elems) + Len(args)))
          [] path = "Array.prototype.pop" ->
                IF ~IsArray(h, thisArg) THEN notArray
                ELSE IF h[thisArg.a].elems = <<>> THEN Ret(st, Undef)
                ELSE IF h[thisArg.a].frozen
                     THEN Throw(st, HostTypeError("cannot delete property"))
                     ELSE Ret([st EXCEPT !.heap[thisArg.a].elems = SubSeq(@, 1, Len(@) - 1)],
                              h[thisArg.a].elems[Len(h[thisArg.a].elems)])
          [] path = "Array.prototype.slice" ->
                IF ~IsArray(h, thisArg) THEN notArray
                ELSE alloc(ArrayObj(h[thisArg.a].elems))
          [] path = "Array.prototype.concat" ->
                IF ~IsArray(h, thisArg) THEN notArray
                ELSE LET flat[i \in 0..Len(args)] ==
                            IF i = 0 THEN h[thisArg.a].elems
                            ELSE flat[i - 1] \o (IF IsArray(h, args[i]) THEN h[args[i].a].elems
                                                 ELSE <<args[i]>>)
                     IN  alloc(ArrayObj(flat[Len(args)]))
          [] path \in {"Array.prototype.map", "Array.prototype.forEach"} ->
                IF ~IsArray(h, thisArg) THEN notArray
                ELSE IF ~IsFunction(Arg(args, 1))
                     THEN Throw(st, HostTypeError("callback is not a function"))
                     ELSE LET r == hostIterate(Arg(args, 1), Arg(args, 2), thisArg, 1,
                                               Len(h[thisArg.a].elems), <<>>, st)
                          IN  IF ~Ok(r) THEN r
                              ELSE IF path = "Array.prototype.forEach" THEN Ret(r.st, Undef)
                              ELSE Ret([r.st EXCEPT !.heap = Append(@, ArrayObj(r.v))],
                                       Ref(Len(r.st.heap) + 1))
          [] path = "Array" ->
                IF Len(args) = 1 /\ args[1].k = "number" /\ args[1].n >= 0
                THEN alloc(ArrayObj([i \in 1..args[1].n |-> Undef]))
                ELSE alloc(ArrayObj(args))
          [] path = "Object" -> alloc(PlainObj(<<>>))
          [] path = "Object.freeze" ->
                IF Arg(args, 1).k = "object"
                THEN Ret([st EXCEPT !.heap[args[1].a].frozen = TRUE], args[1])
                ELSE Ret(st, Arg(args, 1))
          [] path = "Object.isFrozen" ->
                Ret(st, Bool(Arg(args, 1).k # "object" \/ h[Arg(args, 1).a].frozen))
          \* the global scope frame is an extensible object whose properties of
          \* createGlobalScope are not writable: other names are added or rebound
          [] path = "Object.assign" ->
                IF Arg(args, 1) = Host("scope") /\ IsPlain(h, Arg(args, 2))
                THEN IF DOMAIN h[args[2].a].props \cap DOMAIN createGlobalScope # {}
                     THEN Throw(st, HostTypeError("cannot assign to read only property"))
                     ELSE Ret([st EXCEPT !.scopes[Len(st.scopes)] =
                                    [n \in DOMAIN @ \cup DOMAIN h[args[2].a].props |->
                                        IF n \in DOMAIN h[args[2].a].props
                                        THEN h[args[2].a].props[n] ELSE @[n]]],
                              args[1])
                ELSE
                IF ~IsPlain(h, Arg(args, 1)) \/ ~IsPlain(h, Arg(args, 2)) THEN Ret(st, Arg(args, 1))
                ELSE IF h[args[1].a].frozen /\ DOMAIN h[args[2].a].props # {}
                     THEN Throw(st, HostTypeError("cannot assign to read only property"))
                     ELSE Ret([st EXCEPT !.heap[args[1].a].props =
                                    [n \in DOMAIN @ \cup DOMAIN h[args[2].a].props |->
                                        IF n \in DOMAIN h[args[2].a].props
                                        THEN h[args[2].a].props[n] ELSE @[n]]],
                              args[1])
          [] path = "Function.prototype.call" ->
                IF ~IsFunction(thisArg) THEN Throw(st, HostTypeError("receiver is not a function"))
                ELSE callFunction(thisArg, Arg(args, 1), SubSeq(args, 2, Len(args)), st, "host")
          [] path = "Function.prototype.apply" ->
                IF ~IsFunction(thisArg) THEN Throw(st, HostTypeError("receiver is not a function"))
                ELSE callFunction(thisArg, Arg(args, 1), ArgumentsList(h, Arg(args, 2)), st, "host")
          [] path = "Function.prototype.bind" ->
                IF ~IsFunction(thisArg) THEN Throw(st, HostTypeError("receiver is not a function"))
                ELSE Ret(st, Bound(thisArg, Arg(args, 1)))
          [] path = "Reflect.apply" ->
                IF ~IsFunction(Arg(args, 1)) THEN Throw(st, HostTypeError("target is not a function"))
                ELSE callFunction(args[1], Arg(args, 2), ArgumentsList(h, Arg(args, 3)), st, "host")
          [] path = "Reflect.construct" ->
                construct(Arg(args, 1), ArgumentsList(h, Arg(args, 2)), st, "host")
          \* Function(p1, ..., body): the function compiled from the texts; a
          \* parameter text that is no identifier (a number) does not compile
          [] path = "Function" ->
                IF \A i \in 1..(Len(args) - 1) : args[i].k = "string"
                THEN Ret(st, Native("anonymous"))
                ELSE Throw(st, Err("SyntaxError", "Unexpected number"))
          \* a function of the context that evaluates '1' with the same Evaluator
          [] path = "context.evaluate" ->
                enter([op |-> "evaluate", source |-> <<"1">>,
                       node |-> ExprStmt(Lit(Num(1), "1"))], st)
          \* a function of the caller, or compiled code: what it does is the caller's
          [] OTHER -> Ret(st, Undef)

\* func.apply(target, args) of the host, whoever calls: the evaluator or a built-in
applyFunction(f, thisArg, args, st, by) ==
    LET entered == Logged(st, [ev |-> "invoke", fn |-> f, by |-> by, new |-> FALSE])
    IN  CASE f.k = "arrow" -> arrowClosure(f, args, entered)
          [] f.k = "bound" -> callFunction(f.target, f.this, args, entered, "host")
          [] f.k = "native" -> callNative(f.path, thisArg, args, entered)

\* the built-in functions that can be constructed
Constructors == {"Array", "Object", "Function"}

\* new F(...args) of the host
construct(F, args, st, by) ==
    LET entered == Logged(st, [ev |-> "invoke", fn |-> F, by |-> by, new |-> TRUE])
    IN  CASE F.k = "bound" -> construct(F.target, args, st, by)
          [] F.k = "native" /\ F.path \in Constructors -> callNative(F.path, Undef, args, entered)
          [] OTHER -> Throw(st, HostTypeError("is not a constructor"))

\* mutant: nothing is taken for the Function constructor
IsFunctionConstructorNever(func) == FALSE

\* func === Function
IsFunctionConstructor(func) == func = FunctionCtor

\* mutant: no function is taken for a mutable method
IsMutableMethodNone(func) == FALSE

\* getMutableMethods().has(func)
IsMutableMethod(func) == func \in getMutableMethods

handleCallExpression(node, st) ==
    LET isMember == node.callee.type = "MemberExpression"
        ro == IF isMember THEN visit(node.callee.object, st) ELSE Ret(st, Undef)
        calledString == getNodeString(node.callee)
        rf == visit(node.callee, ro.st)
        func == rf.v
        isOptional == node.optional \/ ("optional" \in DOMAIN node.callee /\ node.callee.optional)
        ra == visitEach(node.arguments, TRUE, 1, <<>>, rf.st)
        \* what this call expression did once its callee had a value
        entry(visited, err, applied) ==
            [ev |-> "call", func |-> func, visited |-> visited, err |-> err, applied |-> applied,
             callee |-> node.callee, optional |-> isOptional]
        raise(s, visited, err) == Throw(Logged(s, entry(visited, err, FALSE)), err)
        rt == IF isMember THEN visit(node.callee.object, ra.st) ELSE Ret(ra.st, Null)
        \* history: the target func is applied to, and the object the visit of
        \* the callee read func from
        applied == [this |-> rt.v,
                    readFrom |-> IF isMember THEN rf.st.log[Len(rf.st.log)].object ELSE Null]
    IN  IF ~Ok(ro) THEN ro
        ELSE IF isMember /\ IsMutableMethod(ro.v)
             THEN Throw(Logged(ro.st, [ev |-> "blocked", object |-> ro.v]),
                        Err("Error", MUTABLE_METHOD))
        ELSE IF ~Ok(rf) THEN rf
        ELSE IF ~IsFunction(func)
             THEN IF IsNullish(func) /\ isOptional
                  THEN Ret(Logged(rf.st, entry(0, NoErr, FALSE)), Undef)
                  ELSE raise(rf.st, 0, Err("TypeError", calledString \o " " \o NOT_A_FUNCTION))
        ELSE IF IsFunctionConstructor(func)
             THEN raise(rf.st, 0, Err("Error", FUNCTION_CONSTRUCTOR_NOT_ALLOWED))
        ELSE IF ~Ok(ra) THEN raise(ra.st, ra.visited, ra.err)
        ELSE IF IsMutableMethod(func)
             THEN raise(ra.st, ra.visited, Err("Error", MUTABLE_METHOD))
        ELSE IF ~Ok(rt) THEN raise(rt.st, ra.visited, rt.err)
        ELSE callFunction(func, rt.v, ra.v,
                          Logged(rt.st, entry(ra.visited, NoErr, TRUE) @@ applied), "evaluator")

\* case "NewExpression" of visit
handleNewExpression(node, st) ==
    LET rc == visit(node.callee, st)
        ra == visitEach(node.arguments, FALSE, 1, <<>>, rc.st)
        entry(err) == [ev |-> "new", ctor |-> rc.v, err |-> err]
    IN  IF node.callee.type # "Identifier"
        THEN Throw(st, Err("Error", "Unsupported callee type '" \o node.callee.type
                                        \o "' in new expression"))
        ELSE IF node.callee.name = "Function"
             THEN Throw(st, Err("Error", NEW_FUNCTION_NOT_ALLOWED))
        ELSE IF ~Ok(rc) THEN rc
        ELSE IF ~Ok(ra) THEN Throw(ra.st, ra.err)
        ELSE construct(rc.v, ra.v, Logged(ra.st, entry(NoErr)), "evaluator")

\* typeof v of the host
TypeOf(v) ==
    CASE v.k \in {"number", "NaN", "infinity", "negzero", "fraction"} -> "number"
      [] v.k \in {"null", "object", "host"} -> "object"
      [] v.k \in {"native", "bound", "arrow"} -> "function"
      [] OTHER -> v.k

\* -a on numbers
Negate(a) ==
    CASE a = NaN -> NaN
      [] a.k = "infinity" -> Infinity(~a.negative)
      [] a.k = "negzero" -> Num(0)
      [] a.k = "number" -> IF a.n = 0 THEN NegZero ELSE Num(-a.n)
      [] a.k = "fraction" -> Fraction(-a.num, a.den)

\* the operators -, +, !, typeof and void of handleUnaryExpression on a value
UnaryOperation(op, v) ==
    CASE op = "-" -> [v |-> IF v.k = "bigint" THEN BigInt(-v.i) ELSE Negate(ToNum(v)),
                      err |-> NoErr]
      [] op = "+" -> IF v.k = "bigint"
                     THEN [v |-> Undef,
                           err |-> Err("TypeError", "Cannot convert a BigInt value to a number")]
                     ELSE [v |-> ToNum(v), err |-> NoErr]
      [] op = "!" -> [v |-> Bool(~Truthy(v)), err |-> NoErr]
      [] op = "typeof" -> [v |-> Str(TypeOf(v)), err |-> NoErr]
      [] op = "void" -> [v |-> Undef, err |-> NoErr]

handleUnaryExpression(node, st) ==
    LET ra == visit(node.argument, st)
        r == UnaryOperation(node.operator, ra.v)
    IN  IF node.operator \in {"-", "+", "!", "typeof", "void"}
        THEN IF ~Ok(ra) THEN ra
             ELSE IF r.err = NoErr THEN Ret(ra.st, r.v) ELSE Throw(ra.st, r.err)
        ELSE IF node.operator = "delete" THEN Throw(st, Err("Error", DELETE_NOT_SUPPORTED))
        ELSE Throw(st, Err("Error", "Unsupported unary operator: " \o node.operator))

handleConditionalExpression(node, st) ==
    LET rt == visit(node.test, st)
    IN  IF ~Ok(rt) THEN rt
        ELSE IF Truthy(rt.v) THEN visit(node.consequent, rt.st)
        ELSE visit(node.alternate, rt.st)

\* the longest text the default case quotes whole, and what it keeps of a longer one
MaxQuoted == 20
KeptOfQuoted == 17

\* the content of the default case: the node's span of this.source, cut to its
\* first 17 characters and three dots when longer than 20
quotedContent(source, node) ==
    LET whole == Slice(source, node.start, node.end)
    IN  IF Len(whole) > MaxQuoted THEN SubSeq(whole, 1, KeptOfQuoted) \o <<".", ".", ".">>
        ELSE whole

\* what the host raises for this.source.slice when this.source is undefined
SLICE_OF_UNDEFINED == "Cannot read properties of undefined (reading 'slice')"

\* the default case of visit: this.source is read when the node is visited
unsupported(node, st) ==
    LET e == IF st.source.k = "undefined" THEN HostTypeError(SLICE_OF_UNDEFINED)
             ELSE Err("Error", "'" \o Text(quotedContent(st.source.chars, node)) \o "' "
                                  \o NOT_A_VALID_SYNTAX)
    IN  Throw(Logged(st, [ev |-> "unsupported", node |-> node, err |-> e]), e)

\* the switch of visit over node.type, on the node types the model follows
visitNode(node, st) ==
    CASE node.type = "ExpressionStatement" -> visit(node.expression, st)
      [] node.type = "BinaryExpression" -> handleBinaryExpression(node, st)
      [] node.type = "LogicalExpression" -> handleLogicalExpression(node, st)
      [] node.type = "UnaryExpression" -> handleUnaryExpression(node, st)
      [] node.type = "Identifier" -> handleIdentifier(node, st)
      [] node.type = "Literal" -> Ret(st, node.value)
      [] node.type = "MemberExpression" -> handleMemberExpression(node, st)
      [] node.type = "ArrayExpression" -> handleArrayExpression(node, st)
      [] node.type = "SpreadElement" -> visit(node.argument, st)
      [] node.type = "ArrowFunctionExpression" -> handleArrowFunctionExpression(node, st)
      [] node.type = "CallExpression" -> handleCallExpression(node, st)
      [] node.type = "ConditionalExpression" -> handleConditionalExpression(node, st)
      [] node.type = "NewExpression" -> handleNewExpression(node, st)
      [] node.type = "ChainExpression" -> visit(node.expression, st)
      [] node.type = "ThisExpression" -> Throw(st, Err("Error", THIS_NOT_ALLOWED))
      [] OTHER -> unsupported(node, st)

\* the finally block of evaluate, on the outcome r of the try block
finally(r) == [r EXCEPT !.st.source = Undef]

\* evaluate(expression) entered while an evaluation of the same Evaluator runs
\* (a function of the context calls it), for an expression of one statement:
\* this.source is the expression, and undefined when the call is left
nestedEvaluate(source, node, st) ==
    finally(visit(node, [st EXCEPT !.source = SourceString(source)]))

\* the call stack of the host: the activation entered next is a visit of the
\* evaluator, the application of a function, or an evaluate of the caller
enter(activation, st) ==
    CASE activation.op = "visit" -> visitNode(activation.node, st)
      [] activation.op = "evaluate" -> nestedEvaluate(activation.source, activation.node, st)
      [] activation.op = "apply" ->
            applyFunction(activation.f, activation.thisArg, activation.args, st, activation.by)

\* execute(ast.body): the value of the last statement
RECURSIVE execute(_, _, _, _)
execute(body, i, result, st) ==
    IF i > Len(body) THEN Ret(st, result)
    ELSE LET r == visit(body[i], st)
         IN  IF Ok(r) THEN execute(body, i + 1, r.v, r.st) ELSE r

\* Evaluator.evaluate on the parsed expression
evaluate(source, body, chain, h) ==
    finally(execute(body, 1, Undef,
                    [scopes |-> chain, heap |-> h, log |-> <<>>,
                     source |-> SourceString(source)]))

(***************************************************************************)
(* TemplateParser. A string is the sequence of its characters; positions   *)
(* count from 0 as in the source, so that template[pos] is the character   *)
(* template[pos + 1] of the sequence.                                      *)
(***************************************************************************)
\* the default delimiters
DefaultStart == <<"{", "{">>
DefaultEnd == <<"}", "}">>

\* the characters String.prototype.trim removes that the model follows
Whitespace == {" ", "\t", "\n"}

\* mutant: a delimiter is the option as given, the empty string too
DelimiterAsGiven(option, default) == option

\* option || default: the empty string is falsy
Delimiter(option, default) == IF option # <<>> THEN option ELSE default

\* mutant: every truthy option preserves whitespace
PreserveWhitespaceTruthy(options) == Truthy(options.preserveWhitespace)

\* options.preserveWhitespace === true
PreserveWhitespace(options) == options.preserveWhitespace = Bool(TRUE)

\* new TemplateParser(options); an option that is not given is the empty
\* string (expressionStart, expressionEnd) or undefined (preserveWhitespace)
TemplateParser(options) ==
    LET exprStart == Delimiter(options.expressionStart, DefaultStart)
        exprEnd == Delimiter(options.expressionEnd, DefaultEnd)
    IN  [exprStart |-> exprStart, exprEnd |-> exprEnd,
         startLen |-> Len(exprStart), endLen |-> Len(exprEnd),
         preserveWhitespace |-> PreserveWhitespace(options)]

\* TemplateParser._isMatch
isMatch(pos, template, sequence) ==
    /\ pos + Len(sequence) <= Len(template)
    /\ \A i \in 0..(Len(sequence) - 1) : template[pos + i + 1] = sequence[i + 1]

\* String.prototype.trim
trim(buffer) ==
    LET kept == {i \in DOMAIN buffer : buffer[i] \notin Whitespace}
        Min(S) == CHOOSE i \in S : \A j \in S : i <= j
        Max(S) == CHOOSE i \in S : \A j \in S : i >= j
    IN  IF kept = {} THEN <<>> ELSE SubSeq(buffer, Min(kept), Max(kept))

TextToken(value, start, end) ==
    [type |-> "text", value |-> value, start |-> start, end |-> end]

\* mutant: the content of an expression starts where its open delimiter starts
ContentStartAtDelimiter(parser, exprStartPos) == exprStartPos

ContentStart(parser, exprStartPos) == exprStartPos + parser.startLen

ExpressionToken(parser, value, exprStartPos, pos) ==
    [type |-> "expression", value |-> value, start |-> exprStartPos, end |-> pos + parser.endLen,
     contentStart |-> ContentStart(parser, exprStartPos), contentEnd |-> pos]

\* mutant: every expression is kept
KeepsExpressionAlways(exprValue) == TRUE

\* the test of line 94: an expression is kept when its value is not empty
KeepsExpression(exprValue) == Len(exprValue) > 0

\* the grave accent (U+0060), which a string of this notation cannot hold
Backtick == "U+0060"

\* mutant: a string in an expression is no state of its own
QuoteStateNone(char) == "EXPR"

\* the state a quote character puts an expression in
QuoteState(char) ==
    CASE char = "'" -> "STRING_SQ"
      [] char = "\"" -> "STRING_DQ"
      [] char = Backtick -> "TEMPLATE"

Quotes == {"'", "\"", Backtick}

\* one turn of the main loop of parse, on the loop's variables
step(parser, template, s) ==
    LET pos == s.pos
        char == template[pos + 1]
        \* template[pos + 1] of the source is undefined past the end
        nextChar == IF pos + 2 <= Len(template) THEN template[pos + 2] ELSE "undefined"
        buffered == [s EXCEPT !.buffer = Append(@, char), !.pos = pos + 1]
        exprValue == IF parser.preserveWhitespace THEN s.buffer ELSE trim(s.buffer)
    IN  CASE s.state = "TEXT" ->
                IF isMatch(pos, template, parser.exprStart)
                THEN [state |-> "EXPR", buffer |-> <<>>, exprStartPos |-> pos,
                      pos |-> pos + parser.startLen,
                      tokens |-> IF Len(s.buffer) > 0
                                 THEN Append(s.tokens,
                                             TextToken(s.buffer, pos - Len(s.buffer), pos))
                                 ELSE s.tokens]
                ELSE buffered
          [] s.state = "EXPR" ->
                IF char \in Quotes THEN [buffered EXCEPT !.state = QuoteState(char)]
                ELSE IF char = "\\"
                     THEN [buffered EXCEPT !.state =
                              CASE nextChar = "'" -> "ESCAPE_SQ"
                                [] nextChar = "\"" -> "ESCAPE_DQ"
                                [] nextChar = Backtick -> "ESCAPE_TEMPLATE"
                                [] OTHER -> "ESCAPE_EXPR"]
                ELSE IF isMatch(pos, template, parser.exprEnd)
                     THEN [state |-> "TEXT", buffer |-> <<>>, exprStartPos |-> s.exprStartPos,
                           pos |-> pos + parser.endLen,
                           tokens |-> IF KeepsExpression(exprValue)
                                      THEN Append(s.tokens,
                                                  ExpressionToken(parser, exprValue,
                                                                  s.exprStartPos, pos))
                                      ELSE s.tokens]
                ELSE buffered
          [] s.state = "STRING_SQ" ->
                [buffered EXCEPT !.state = IF char = "\\" THEN "ESCAPE_SQ"
                                           ELSE IF char = "'" THEN "EXPR" ELSE @]
          [] s.state = "STRING_DQ" ->
                [buffered EXCEPT !.state = IF char = "\\" THEN "ESCAPE_DQ"
                                           ELSE IF char = "\"" THEN "EXPR" ELSE @]
          [] s.state = "TEMPLATE" ->
                [buffered EXCEPT !.state = IF char = "\\" THEN "ESCAPE_TEMPLATE"
                                           ELSE IF char = Backtick THEN "EXPR" ELSE @]
          [] s.state = "ESCAPE_SQ" -> [buffered EXCEPT !.state = "STRING_SQ"]
          [] s.state = "ESCAPE_DQ" -> [buffered EXCEPT !.state = "STRING_DQ"]
          [] s.state = "ESCAPE_TEMPLATE" -> [buffered EXCEPT !.state = "TEMPLATE"]
          [] s.state = "ESCAPE_EXPR" -> [buffered EXCEPT !.state = "EXPR"]

\* the variables of the loop before its first turn
LoopStart ==
    [state |-> "TEXT", buffer |-> <<>>, exprStartPos |-> 0, pos |-> 0, tokens |-> <<>>]

\* the main loop of parse
RECURSIVE scan(_, _, _)
scan(parser, template, s) ==
    IF s.pos < Len(template) THEN scan(parser, template, step(parser, template, s)) ELSE s

\* the post-processing of parse: what is left in the buffer at the end
postProcess(parser, s) ==
    IF Len(s.buffer) > 0
    THEN IF s.state = "TEXT"
         THEN <<TextToken(s.buffer, s.pos - Len(s.buffer), s.pos)>>
         ELSE <<TextToken(parser.exprStart \o s.buffer, s.exprStartPos, s.pos)>>
    ELSE <<>>

\* TemplateParser.prototype.parse, on a string; end is the loop's variables
\* when the loop is left
parseWith(parser, template) ==
    LET s == scan(parser, template, LoopStart)
    IN  [tokens |-> s.tokens \o postProcess(parser, s), end |-> s]

\* TemplateParser.parse(template, options)
parse(template, options) == parseWith(TemplateParser(options), template).tokens

(***************************************************************************)
(* evaluatorTemplate: the tokens of a template, rendered.                  *)
(***************************************************************************)
\* what the renderer puts for an expression that names an undefined variable
PLACEHOLDER == "undefined"

\* acorn.parse on the expressions of the templates: a word of the letter a is
\* an identifier, the sources listed are the expressions they spell, and every
\* other source of the templates is no expression (acorn's message names the
\* position, which is not followed)
acornParse(source) ==
    LET parsedAs(node) == [ast |-> <<ExprStmt(node)>>, err |-> NoErr]
        src == Text(source)
    IN  CASE source # <<>> /\ \A i \in DOMAIN source : source[i] = "a" -> parsedAs(Id(src))
          [] src = "x" -> parsedAs(Id("x"))
          [] src = "foo" -> parsedAs(Id("foo"))
          [] src = "this" -> parsedAs([type |-> "ThisExpression"])
          [] src = "n.x" -> parsedAs(Dot(Id("n"), "x"))
          [] src = "arr.push(1)" ->
                parsedAs(Call(Dot(Id("arr"), "push"), <<Lit(Num(1), "1")>>))
          [] src = "'}}'" -> parsedAs(Lit(Str("}}"), "'}}'"))
          [] src = "(a=>foo)(1)" ->
                parsedAs(Call(Arrow(<<Id("a")>>, Id("foo")), <<Lit(Num(1), "1")>>))
          [] src = "(a=>a)(1)" ->
                parsedAs(Call(Arrow(<<Id("a")>>, Id("a")), <<Lit(Num(1), "1")>>))
          [] OTHER -> [ast |-> <<>>, err |-> Err("SyntaxError", "Unexpected token")]

\* Evaluator.evaluate(expression, context): a new Evaluator for each call
staticEvaluate(expression, context, h) ==
    LET program == acornParse(expression)
        st == [scopes |-> <<context, createGlobalScope>>, heap |-> h, log |-> <<>>,
               source |-> SourceString(expression)]
    IN  IF program.err # NoErr THEN Throw(st, program.err)
        ELSE execute(program.ast, 1, Undef, st)

\* the names an identifier of a template's expression can have
TemplateNames(template) ==
    {"x", "foo", "arr", "n"}
       \cup {Text([i \in 1..k |-> "a"]) : k \in 1..Len(template)}

\* mutant: the renderer recovers from every error
RecoversAlways(template, err) == TRUE

\* error instanceof ReferenceError && error.message.endsWith("is not defined")
Recovers(template, err) ==
    /\ err.type = "ReferenceError"
    /\ \E name \in TemplateNames(template) :
          err.message = name \o " " \o VARIABLE_NOT_DEFINED

\* one turn of the loop of evaluatorTemplate: token i, with r the outcome of
\* Evaluator.evaluate on it when it is an expression. outcomes records, for
\* each expression token evaluated, its value or its error; returned is FALSE
\* once an error has left the loop
renderToken(template, before, token, i, r) ==
    IF ~before.returned THEN before
    ELSE IF token.type = "text" THEN [before EXCEPT !.output = @ \o Text(token.value)]
    ELSE LET done == Append(before.outcomes, [token |-> i, value |-> r.v, err |-> r.err])
         IN  IF r.err = NoErr
             THEN [before EXCEPT !.output = @ \o ToStr(r.st.heap, r.v),
                                 !.heap = r.st.heap, !.outcomes = done]
             ELSE IF Recovers(template, r.err)
                  THEN [before EXCEPT !.output = @ \o PLACEHOLDER,
                                      !.heap = r.st.heap, !.outcomes = done]
             ELSE [returned |-> FALSE, output |-> "", err |-> r.err,
                   heap |-> r.st.heap, outcomes |-> done]

renderNext(template, tokens, i, context, before) ==
    renderToken(template, before, tokens[i], i,
                staticEvaluate(tokens[i].value, context, before.heap))

\* the loop of evaluatorTemplate over the tokens: the state after i tokens
RECURSIVE renderTokens(_, _, _, _, _)
renderTokens(template, tokens, i, context, h) ==
    IF i = 0
    THEN [returned |-> TRUE, output |-> "", err |-> NoErr, heap |-> h, outcomes |-> <<>>]
    ELSE renderNext(template, tokens, i, context,
                    renderTokens(template, tokens, i - 1, context, h))

NoOptions == [expressionStart |-> <<>>, expressionEnd |-> <<>>, preserveWhitespace |-> Undef]

\* evaluatorTemplate(template, context)
evaluatorTemplate(template, context, h) ==
    renderTokens(template, parse(template, NoOptions),
                 Len(parse(template, NoOptions)), context, h)

(***************************************************************************)
(* evaluatorTemplate of src/src/index.js: String.prototype.replace with    *)
(* TEMPLATE_EXPRESSION_REGEX, one Evaluator for all the matches.           *)
(***************************************************************************)
\* the depth of braces at the end of chars: 0 or 1, and -1 once a brace is one
\* that (?:[^{}]|{[^{}]*})+ does not match
BraceDepth(chars) ==
    LET depth[i \in 0..Len(chars)] ==
            IF i = 0 THEN 0
            ELSE CASE depth[i - 1] = -1 -> -1
                   [] chars[i] = "{" -> IF depth[i - 1] = 0 THEN 1 ELSE -1
                   [] chars[i] = "}" -> IF depth[i - 1] = 1 THEN 0 ELSE -1
                   [] OTHER -> depth[i - 1]
    IN  depth[Len(chars)]

\* where the match of TEMPLATE_EXPRESSION_REGEX that begins at p ends, and 0
\* when none begins there: an optional $, the open braces, one character or
\* more with single-level braces only, the close braces
MatchEnd(T, p) ==
    LET open == IF p < Len(T) /\ T[p + 1] = "$" THEN p + 1 ELSE p
        ends == {e \in (open + 5)..Len(T) :
                    /\ isMatch(e - 2, T, DefaultEnd)
                    /\ BraceDepth(Slice(T, open + 2, e - 2)) = 0}
    IN  IF isMatch(open, T, DefaultStart) /\ ends # {}
        THEN CHOOSE e \in ends : \A other \in ends : e >= other
        ELSE 0

\* where the first match at or after from begins, and -1 when there is none
NextMatch(T, from) ==
    LET starts == {p \in from..(Len(T) - 1) : MatchEnd(T, p) # 0}
    IN  IF starts = {} THEN -1 ELSE CHOOSE p \in starts : \A q \in starts : p <= q

\* the expression a match captures, trimmed
Captured(T, p) ==
    trim(Slice(T, (IF T[p + 1] = "$" THEN p + 1 ELSE p) + 2, MatchEnd(T, p) - 2))

\* evaluator.evaluate(expression) on the text of an expression
evaluateExpression(expression, chain, h) ==
    IF acornParse(expression).err # NoErr
    THEN Throw([scopes |-> chain, heap |-> h, log |-> <<>>, source |-> SourceString(expression)],
               acornParse(expression).err)
    ELSE evaluate(expression, acornParse(expression).ast, chain, h)

\* the callback of replace on the match at p, r the outcome of evaluate on
\* its expression; from is where the search for the next match goes on
replaceMatch(template, before, p, r) ==
    LET done == Append(before.outcomes,
                       [expression |-> Captured(template, p), chain |-> before.scopes,
                        value |-> r.v, err |-> r.err])
        skipped == Text(Slice(template, before.from, p))
        after(substitute) ==
            [before EXCEPT !.output = @ \o skipped \o substitute,
                           !.scopes = r.st.scopes, !.heap = r.st.heap,
                           !.outcomes = done, !.from = MatchEnd(template, p)]
    IN  IF r.err = NoErr THEN after(ToStr(r.st.heap, r.v))
        ELSE IF Recovers(template, r.err) THEN after("")
        ELSE [returned |-> FALSE, output |-> "", err |-> r.err, scopes |-> r.st.scopes,
              heap |-> r.st.heap, outcomes |-> done, from |-> Len(template) + 1]

replaceNext(template, before, p) ==
    IF p = -1
    THEN [before EXCEPT !.output = @ \o Text(Slice(template, before.from, Len(template))),
                        !.from = Len(template) + 1]
    ELSE replaceMatch(template, before, p,
                      evaluateExpression(Captured(template, p), before.scopes, before.heap))

\* template.replace(TEMPLATE_EXPRESSION_REGEX, callback): match after match
RECURSIVE replaceAll(_, _)
replaceAll(template, before) ==
    IF before.from > Len(template) THEN before
    ELSE replaceAll(template, replaceNext(template, before, NextMatch(template, before.from)))

\* evaluatorTemplate(template, context) of src/src/index.js
evaluatorTemplateShared(template, context, h) ==
    replaceAll(template,
               [returned |-> TRUE, output |-> "", err |-> NoErr,
                scopes |-> <<context, createGlobalScope>>, heap |-> h, outcomes |-> <<>>,
                from |-> 0])

(***************************************************************************)
(* The callers' contexts and the expressions they evaluate.                *)
(***************************************************************************)
\* the objects the contexts refer to: arr = [1, 2], obj = {a: 1}, src = {b: 2}
ContextHeap ==
    << ArrayObj(<<Num(1), Num(2)>>), PlainObj([a |-> Num(1)]), PlainObj([b |-> Num(2)]) >>

\* a context holding aliases of built-ins and a function of the caller
AliasContext ==
    [arr |-> Ref(1), obj |-> Ref(2), src |-> Ref(3), x |-> Num(5), n |-> Null,
     p |-> Native("Array.prototype.push"), F |-> FunctionCtor,
     sideEffect |-> Native("context.sideEffect")]

\* a context of plain data; its Array shadows the global of that name
DataContext == [arr |-> Ref(1), x |-> Num(5), Array |-> Num(7)]

Contexts == {AliasContext, DataContext}

one == Lit(Num(1), "1")
three == Lit(Num(3), "3")
text == Lit(Str("x"), "'x'")
arr == Id("arr")
sideEffectCall == Call(Id("sideEffect"), <<>>)

ArgumentLists == {<<>>, <<three>>, <<Id("foo")>>, <<sideEffectCall>>}

\* callees that evaluate to a mutable method, by every path
MutableCallees ==
    {Dot(arr, "push"),
     Member(arr, Binary("+", Lit(Str("pu"), "'pu'"), Lit(Str("sh"), "'sh'")), TRUE, FALSE),
     Id("p"),
     Dot(Id("Object"), "freeze")}

\* callees that evaluate to the Function constructor, by every path
FunctionCallees ==
    {Id("Function"), Id("F"), Dot(Dot(arr, "slice"), "constructor"),
     Dot(Arrow(<<>>, one), "constructor"), Dot(Id("globalThis"), "Function")}

CallExpressions ==
    {Call(c, a) : c \in MutableCallees \cup FunctionCallees, a \in ArgumentLists}
    \cup
    {Call(Dot(Dot(arr, "push"), "call"), <<arr, three>>),
     Call(Dot(Dot(arr, "push"), "apply"), <<arr, ArrayExpr(<<three>>)>>),
     Call(Dot(Dot(arr, "push"), "bind"), <<arr>>),
     Call(Dot(Dot(arr, "push"), "constructor"), <<text>>),
     Call(Arrow(<<Id("q")>>, Call(Id("q"), <<three>>)), <<Dot(arr, "push")>>),
     Call(Arrow(<<Id("g")>>, Call(Id("g"), <<text>>)), <<Id("Function")>>),
     Call(Dot(Id("Object"), "assign"), <<Id("obj"), Id("src")>>),
     Call(Dot(arr, "slice"), <<>>),
     Call(Dot(arr, "concat"), <<three>>),
     Call(Dot(Dot(arr, "slice"), "call"), <<arr>>),
     Call(Dot(Id("Object"), "isFrozen"), <<arr>>),
     Call(Member(arr, Id("nothing"), FALSE, TRUE), <<Id("foo")>>),
     Call(Dot(arr, "length"), <<Id("foo")>>)}

\* a built-in handed to another built-in that calls or constructs it
HandedOver ==
    {Call(Dot(Id("Reflect"), "apply"), <<Dot(arr, "push"), arr, ArrayExpr(<<three>>)>>),
     Call(Dot(ArrayExpr(<<three>>), "forEach"), <<Dot(arr, "push"), arr>>),
     Call(Dot(Id("Reflect"), "apply"), <<Dot(Id("Object"), "freeze"), Lit(Null, "null"), ArrayExpr(<<arr>>)>>),
     Call(Dot(Id("Reflect"), "apply"),
          <<Dot(Id("Object"), "assign"), Lit(Null, "null"), ArrayExpr(<<Id("obj"), Id("src")>>)>>),
     Call(Dot(Id("Reflect"), "construct"), <<Id("Function"), ArrayExpr(<<text>>)>>),
     Call(Dot(Id("Reflect"), "apply"), <<Id("Function"), Lit(Null, "null"), ArrayExpr(<<text>>)>>),
     Call(Dot(ArrayExpr(<<one>>), "map"), <<Id("Function")>>),
     Call(Dot(Id("Function"), "call"), <<Lit(Null, "null"), text>>)}

NewExpressions ==
    {New(Id("Function"), <<>>), New(Id("Function"), <<Id("foo")>>), New(Id("F"), <<text>>),
     Call(Arrow(<<Id("G")>>, New(Id("G"), <<text>>)), <<Id("Function")>>),
     New(Dot(arr, "constructor"), <<>>), New(Dot(Id("globalThis"), "Function"), <<>>),
     New(Id("Array"), <<one, three>>), New(Id("foo"), <<>>), New(Id("x"), <<>>)}

Identifiers ==
    {Id(name) : name \in {"foo", "process", "require", "x", "arr", "Array", "Function",
                          "undefined", "a", "v", "globalThis",
                          "toString", "constructor", "hasOwnProperty"}}
    \cup
    {Call(Arrow(<<Id("a")>>, Id("toString")), <<one>>),
     Call(Id("eval"), <<text>>), Call(Id("setTimeout"), <<text, one>>),
     Chain(Member(Id("foo"), Id("bar"), FALSE, TRUE)),
     Chain(Member(Id("n"), Id("bar"), FALSE, TRUE)),
     Dot(Id("n"), "bar")}

\* member accesses: on null and undefined, optional or not, static or computed,
\* and on objects, arrays and primitives
MemberAccesses ==
    {Chain(Member(Id("n"), text, TRUE, TRUE)),
     Chain(Member(Id("n"), Id("foo"), TRUE, TRUE)),
     Chain(Member(Id("n"), sideEffectCall, TRUE, TRUE)),
     Chain(Member(Id("undefined"), Id("bar"), FALSE, TRUE)),
     Chain(Member(Id("obj"), Id("a"), FALSE, TRUE)),
     Chain(Dot(Member(Id("n"), Id("bar"), FALSE, TRUE), "c")),
     Chain(Call(Dot(Member(Id("n"), Id("bar"), FALSE, TRUE), "c"), <<>>)),
     Member(Id("n"), text, TRUE, FALSE),
     Member(Id("n"), Id("foo"), TRUE, FALSE),
     Dot(Id("undefined"), "bar"),
     Dot(Id("obj"), "a"), Dot(Id("obj"), "missing"), Member(Id("obj"), Lit(Str("a"), "'a'"), TRUE, FALSE),
     Dot(arr, "length"), Member(arr, Lit(Num(0), "0"), TRUE, FALSE),
     Member(arr, Lit(Num(9), "9"), TRUE, FALSE), Dot(Id("x"), "bar"), Dot(text, "length")}

\* calls of values that are no functions: plain and optional, by callees of
\* several node types
NonFunctionCalls ==
    {Call(Id("x"), <<>>), Call(Id("x"), <<Id("foo")>>), Call(Id("x"), <<sideEffectCall>>),
     Call(Id("n"), <<>>), Call(Dot(Id("obj"), "missing"), <<Id("foo")>>),
     Call(Member(Id("obj"), Lit(Str("missing"), "\"missing\""), TRUE, FALSE), <<>>),
     Call(Member(Id("obj"), Lit(Num(1), "1"), TRUE, FALSE), <<>>),
     Call(Member(Id("obj"), ArrayExpr(<<one, three>>), TRUE, FALSE), <<>>),
     Call(Binary("+", Id("x"), one), <<Id("foo")>>),
     Call(Logical("??", Id("n"), Id("x")), <<>>),
     Chain(OptionalCall(Id("n"), <<Id("foo")>>)),
     Chain(OptionalCall(Id("undefined"), <<sideEffectCall>>)),
     Chain(OptionalCall(Id("x"), <<>>)),
     Chain(OptionalCall(Dot(Id("obj"), "a"), <<>>)),
     Chain(Call(Member(Id("n"), Id("bar"), FALSE, TRUE), <<>>)),
     Chain(Call(Member(Id("obj"), Id("missing"), FALSE, TRUE), <<Id("foo")>>)),
     Chain(Call(Member(Id("obj"), Id("a"), FALSE, TRUE), <<>>))}

\* the operands of divisions and remainders: numbers of either sign, both
\* zeros, the values that convert to numbers, and BigInts
zero == Lit(Num(0), "0")
Dividends ==
    {one, Unary("-", one), three, zero, Unary("-", zero), Id("NaN"), Id("Infinity"),
     Unary("-", Id("Infinity")), Id("n"), Id("undefined"), text, Lit(Str("3"), "'3'"),
     Lit(Bool(TRUE), "true"), Lit(BigInt(1), "1n"), Lit(BigInt(0), "0n")}
Divisors ==
    {zero, Unary("-", zero), Id("n"), Lit(Str(""), "''"), Lit(Bool(FALSE), "false"),
     Lit(BigInt(0), "0n"), Lit(Num(2), "2"), Unary("-", three), Id("Infinity"),
     Lit(BigInt(2), "2n")}
Divisions == {Binary(op, x, y) : op \in {"/", "%"}, x \in Dividends, y \in Divisors}

\* the other operators of handleUnaryExpression
UnaryExpressions ==
    {Unary("+", text), Unary("+", Lit(BigInt(1), "1n")), Unary("!", zero),
     Unary("typeof", Id("foo")), Unary("typeof", Id("n")), Unary("void", one),
     Unary("delete", Dot(Id("obj"), "a")), Unary("~", one)}

LeftOperands ==
    {Lit(Bool(FALSE), "false"), Lit(Bool(TRUE), "true"), Lit(Null, "null"), Lit(Num(0), "0"),
     Lit(Str(""), "''"), Id("undefined"), Id("x"), arr}
RightOperands == {Dot(Id("foo"), "bar"), sideEffectCall, one}

LogicalExpressions ==
    {Logical(op, l, r) : op \in {"&&", "||", "??"}, l \in LeftOperands, r \in RightOperands}

Closures ==
    {Call(Arrow(<<Id("a")>>, Id("a")), <<one>>),
     Call(Arrow(<<Id("a")>>, Dot(Dot(Id("a"), "b"), "c")), <<one>>),
     Call(Dot(arr, "map"), <<Arrow(<<Id("v")>>, Id("foo"))>>),
     Call(Call(Arrow(<<Id("a")>>, Arrow(<<Id("b")>>, Binary("+", Id("a"), Id("b")))), <<one>>),
          <<three>>),
     Call(Arrow(<<Id("f")>>, Call(Arrow(<<Id("w")>>, Call(Id("f"), <<>>)), <<three>>)),
          <<Arrow(<<>>, Id("w"))>>),
     Call(Dot(arr, "map"),
          <<Arrow(<<Id("v")>>, Call(Dot(arr, "map"),
                <<Arrow(<<Id("u")>>, Binary("+", Id("v"), Id("u")))>>))>>),
     Call(Dot(arr, "map"), <<Arrow(<<arr>>, Binary("+", arr, one))>>),
     Call(Arrow(<<Id("Array")>>, Id("Array")), <<one>>),
     Call(Arrow(<<Id("x")>>, Id("x")), <<three>>),
     Call(Arrow(<<Id("x")>>, Dot(Dot(Id("x"), "b"), "c")), <<one>>),
     Call(Arrow(<<Id("x"), Id("y")>>, ArrayExpr(<<Id("x"), Id("y")>>)), <<one>>),
     Call(Arrow(<<Id("a")>>, Id("a")), <<one, three>>),
     Call(Arrow(<<Rest(Id("r"))>>, one), <<one, three>>),
     Call(Arrow(<<Rest(Id("r"))>>, Dot(Id("r"), "length")), <<one, three>>),
     Call(Arrow(<<Rest(Id("r"))>>, Id("undefined")), <<three>>),
     Call(Dot(Call(Dot(arr, "slice"), <<>>), "map"), <<Arrow(<<Id("v")>>, Id("v"))>>),
     Call(Dot(ArrayExpr(<<one>>), "map"), <<Arrow(<<Id("v")>>, Id("v"))>>)}

Expressions ==
    CallExpressions \cup HandedOver \cup NewExpressions \cup Identifiers
        \cup LogicalExpressions \cup Closures \cup {This} \cup MemberAccesses \cup NonFunctionCalls

(***************************************************************************)
(* The state machine.                                                      *)
(***************************************************************************)
\* no template has been parsed or rendered
NoTemplate == [op |-> "none"]

NoCall ==
    [expr |-> [type |-> "none"], value |-> Undef, err |-> NoErr, log |-> <<>>,
     scopesBefore |-> <<>>, heapBefore |-> <<>>]

\* new Evaluator(variables), for a context of Contexts
Init ==
    /\ variables \in Contexts
    /\ scopes = <<variables, createGlobalScope>>
    /\ heap = Collect(ContextHeap, RefsOfChain(<<variables>>))
    /\ caller = "idle"
    /\ last = NoCall
    /\ parsed = NoTemplate

\* evaluator.evaluate(expression), returning or raising
Evaluate(expression) ==
    /\ caller = "idle"
    /\ Len(scopes) <= 2 + MaxLeaked
    /\ \A a \in DOMAIN heap : Len(heap[a].elems) <= MaxLen
    /\ LET r == evaluate(TextOf(expression), <<ExprStmt(expression)>>, scopes, heap)
       IN  /\ scopes' = r.st.scopes
           /\ heap' = Collect(r.st.heap, RefsOfChain(r.st.scopes) \cup RefsOfValue(r.v))
           /\ last' = [expr |-> expression, value |-> r.v, err |-> r.err, log |-> r.st.log,
                       scopesBefore |-> scopes, heapBefore |-> heap]
    /\ caller' = "holding"
    /\ UNCHANGED <<variables, parsed>>

\* the caller drops the value or the error of the last call
Discard ==
    /\ caller = "holding"
    /\ caller' = "idle"
    /\ last' = NoCall
    /\ heap' = Collect(heap, RefsOfChain(scopes))
    /\ UNCHANGED <<variables, scopes, parsed>>

Next ==
    \/ \E expression \in Expressions : Evaluate(expression)
    \/ Discard

Spec == Init /\ [][Next]_vars

\* the callers that evaluate arithmetic: the operators are pure, so these
\* evaluations are followed apart from the calls that change the heap
NextArithmetic ==
    \/ \E expression \in Divisions \cup UnaryExpressions : Evaluate(expression)
    \/ Discard

SpecArithmetic == Init /\ [][NextArithmetic]_vars

(***************************************************************************)
(* The callers of TemplateParser.parse.                                    *)
(***************************************************************************)
\* templates are made of at most this many pieces
MaxPieces == 5

\* the configurations of the parser: the defaults with preserveWhitespace not
\* given and true, and the delimiters <% and %> with preserveWhitespace not
\* given and 1
ParserOptions ==
    {[expressionStart |-> <<>>, expressionEnd |-> <<>>, preserveWhitespace |-> p] :
        p \in {Undef, Bool(TRUE)}}
      \cup {[expressionStart |-> <<"<", "%">>, expressionEnd |-> <<"%", ">">>,
             preserveWhitespace |-> p] : p \in {Undef, Num(1)}}

\* what templates are made of under a configuration: its delimiters, a quote
\* character, the backslash, a blank and a letter
Pieces(options, quote) ==
    {TemplateParser(options).exprStart, TemplateParser(options).exprEnd,
     <<quote>>, <<"\\">>, <<" ">>, <<"x">>}

RECURSIVE Flatten(_)
Flatten(pieces) == IF pieces = <<>> THEN <<>> ELSE Head(pieces) \o Flatten(Tail(pieces))

\* the quote characters the templates of a configuration are written with
QuotesOf(options) ==
    IF options.expressionStart = <<>> /\ options.preserveWhitespace = Undef THEN Quotes
    ELSE {"'"}

Templates(options) ==
    {Flatten(pieces) :
        pieces \in UNION {[1..n -> Pieces(options, quote)] :
                             n \in 0..MaxPieces, quote \in QuotesOf(options)}}

InitParser == Init /\ variables = DataContext

\* TemplateParser.parse(template, options)
Parse(template, options) ==
    /\ parsed' = [op |-> "parse", template |-> template, options |-> options,
                  tokens |-> parse(template, options),
                  end |-> parseWith(TemplateParser(options), template).end]
    /\ UNCHANGED <<variables, scopes, heap, caller, last>>

\* the caller drops the tokens or the output of the last call
Release ==
    /\ parsed # NoTemplate
    /\ parsed' = NoTemplate
    /\ UNCHANGED <<variables, scopes, heap, caller, last>>

\* a caller parses one template at a time
NextParser ==
    \/ /\ parsed = NoTemplate
       /\ \E options \in ParserOptions : \E template \in Templates(options) :
                Parse(template, options)
    \/ Release

SpecParser == InitParser /\ [][NextParser]_vars

(***************************************************************************)
(* The callers of evaluatorTemplate.                                       *)
(***************************************************************************)
\* templates are made of at most this many segments
MaxSegments == 3

Wrapped(source) == DefaultStart \o source \o DefaultEnd

\* what the rendered templates are made of: text, the delimiters, and
\* expressions that evaluate, that name an undefined variable, and that raise
\* other errors
Segments ==
    {<<"a">>, <<" ">>, DefaultStart, DefaultEnd,
     Wrapped(<<"x">>),
     Wrapped(<<" ", "f", "o", "o", " ">>),
     Wrapped(<<"n", ".", "x">>),
     Wrapped(<<"a", "r", "r", ".", "p", "u", "s", "h", "(", "1", ")">>),
     Wrapped(<<"t", "h", "i", "s">>),
     Wrapped(<<"x", " ", "x">>),
     Wrapped(<<"'", "}", "}", "'">>),
     Wrapped(<<" ">>)}

RenderedTemplates ==
    {Flatten(segments) : segments \in UNION {[1..n -> Segments] : n \in 0..MaxSegments}}

\* evaluatorTemplate(template, variables), returning or raising
Rendered(template, r) ==
    /\ parsed' = [op |-> "render", template |-> template,
                  tokens |-> parse(template, NoOptions), returned |-> r.returned,
                  output |-> r.output, err |-> r.err, outcomes |-> r.outcomes]
    /\ heap' = Collect(r.heap, RefsOfChain(scopes))
    /\ UNCHANGED <<variables, scopes, caller, last>>

Render(template) == Rendered(template, evaluatorTemplate(template, variables, heap))

\* a caller renders one template at a time
NextTemplate ==
    \/ /\ parsed = NoTemplate
       /\ \E template \in RenderedTemplates : Render(template)
    \/ Release

SpecTemplate == Init /\ [][NextTemplate]_vars

(***************************************************************************)
(* The callers that hand evaluate the text of an expression with a node    *)
(* visit has no case for, and call the closure an evaluation returned.     *)
(***************************************************************************)
\* an assignment, which visit has no case for, at [start, end) of the text
Assignment(start, end) == [type |-> "AssignmentExpression", start |-> start, end |-> end]

\* the text 'a = a...a' of n characters
AssignmentText(n) ==
    [i \in 1..n |-> IF i \in {2, 4} THEN " " ELSE IF i = 3 THEN "=" ELSE "a"]

\* the lengths of the assignments: short, 20, 21 and longer
TextLengths == {5, 20, 21, 24}

\* the texts and the trees acorn gives for them: for an assignment A,
\* A   ()=>A   (()=>A)()   arr.map(()=>A)   [run(),A]   ()=>[run(),A]
ProgramsOf(n) ==
    LET A == AssignmentText(n)
        program(before, after, node) ==
            [source |-> before \o A \o after, node |-> node]
        at(from) == Assignment(from, from + n)
    IN  {program(<<>>, <<>>, at(0)),
         program(<<"(", ")", "=", ">">>, <<>>, Arrow(<<>>, at(4))),
         program(<<"(", "(", ")", "=", ">">>, <<")", "(", ")">>,
                 Call(Arrow(<<>>, at(5)), <<>>)),
         program(<<"a", "r", "r", ".", "m", "a", "p", "(", "(", ")", "=", ">">>, <<")">>,
                 Call(Dot(arr, "map"), <<Arrow(<<>>, at(12))>>)),
         program(<<"[", "r", "u", "n", "(", ")", ",">>, <<"]">>,
                 ArrayExpr(<<Call(Id("run"), <<>>), at(7)>>)),
         program(<<"(", ")", "=", ">", "[", "r", "u", "n", "(", ")", ",">>, <<"]">>,
                 Arrow(<<>>, ArrayExpr(<<Call(Id("run"), <<>>), at(11)>>)))}

Programs == UNION {ProgramsOf(n) : n \in TextLengths}

\* contexts whose run calls evaluate('1') of the Evaluator they are given to
SourceContexts ==
    {[arr |-> Ref(1), run |-> Native("context.evaluate")],
     [arr |-> Ref(1), run |-> Native("context.evaluate"), a |-> Num(5)]}

InitSource ==
    /\ variables \in SourceContexts
    /\ scopes = <<variables, createGlobalScope>>
    /\ heap = Collect(ContextHeap, RefsOfChain(<<variables>>))
    /\ caller = "idle"
    /\ last = NoCall
    /\ parsed = NoTemplate

\* what the caller holds of a call: last, and the text the nodes were parsed from
Held(source, expr, r) ==
    /\ scopes' = r.st.scopes
    /\ heap' = Collect(r.st.heap, RefsOfChain(r.st.scopes) \cup RefsOfValue(r.v))
    /\ last' = [expr |-> expr, value |-> r.v, err |-> r.err, log |-> r.st.log,
                scopesBefore |-> scopes, heapBefore |-> heap, source |-> source]
    /\ caller' = "holding"
    /\ UNCHANGED <<variables, parsed>>

\* evaluator.evaluate(text), returning or raising
EvaluateText(program) ==
    /\ caller = "idle"
    /\ Len(scopes) <= 2 + MaxLeaked
    /\ Held(program.source, program.node,
            evaluate(program.source, <<ExprStmt(program.node)>>, scopes, heap))

\* the caller calls the arrow function the last call returned: no evaluate is
\* running, and this.source is undefined
Invoke ==
    /\ caller = "holding"
    /\ last.value.k = "arrow"
    /\ Len(scopes) <= 2 + MaxLeaked
    /\ Held(last.source, [type |-> "invoke", callee |-> last.expr],
            callFunction(last.value, Undef, <<>>,
                         [scopes |-> scopes, heap |-> heap, log |-> <<>>, source |-> Undef],
                         "caller"))

NextSource ==
    \/ \E program \in Programs : EvaluateText(program)
    \/ Invoke
    \/ Discard

SpecSource == InitSource /\ [][NextSource]_vars

(***************************************************************************)
(* The loop of parse, a turn at a time: parsed holds the loop's variables  *)
(* while the loop runs and the tokens once it is left.                     *)
(***************************************************************************)
\* the templates of the loop are made of that many pieces at most
MaxLoopPieces == 3

LoopTemplates(options) ==
    {Flatten(pieces) :
        pieces \in UNION {[1..n -> Pieces(options, quote)] :
                             n \in 0..MaxLoopPieces, quote \in QuotesOf(options)}}

\* parse(template) is entered
Enter(template, options) ==
    /\ parsed' = [op |-> "loop", template |-> template, options |-> options, s |-> LoopStart]
    /\ UNCHANGED <<variables, scopes, heap, caller, last>>

\* one turn of the loop: while (pos < length)
Turn ==
    /\ parsed.op = "loop"
    /\ parsed.s.pos < Len(parsed.template)
    /\ parsed' = [parsed EXCEPT !.s = step(TemplateParser(parsed.options), parsed.template, @)]
    /\ UNCHANGED <<variables, scopes, heap, caller, last>>

\* the loop is left: the post-processing, and parse returns
Return ==
    /\ parsed.op = "loop"
    /\ ~(parsed.s.pos < Len(parsed.template))
    /\ parsed' = [op |-> "parse", template |-> parsed.template, options |-> parsed.options,
                  tokens |-> parsed.s.tokens
                                \o postProcess(TemplateParser(parsed.options), parsed.s),
                  end |-> parsed.s]
    /\ UNCHANGED <<variables, scopes, heap, caller, last>>

\* the caller drops the tokens
Drop ==
    /\ parsed.op = "parse"
    /\ parsed' = NoTemplate
    /\ UNCHANGED <<variables, scopes, heap, caller, last>>

NextLoop ==
    \/ /\ parsed = NoTemplate
       /\ \E options \in ParserOptions : \E template \in LoopTemplates(options) :
             Enter(template, options)
    \/ Turn
    \/ Return
    \/ Drop

\* parse runs on: a call that is entered is not suspended for ever
SpecLoop == InitParser /\ [][NextLoop]_vars /\ WF_vars(Turn) /\ WF_vars(Return)

(***************************************************************************)
(* The callers of evaluatorTemplate of src/src/index.js.                   *)
(***************************************************************************)
SharedSegments ==
    {<<"a">>, <<"$">>,
     Wrapped(<<"a">>),
     Wrapped(<<" ", "x", " ">>),
     Wrapped(<<"f", "o", "o">>),
     Wrapped(<<"n", ".", "x">>),
     Wrapped(<<"(", "a", "=", ">", "f", "o", "o", ")", "(", "1", ")">>),
     Wrapped(<<"(", "a", "=", ">", "a", ")", "(", "1", ")">>)}

SharedTemplates ==
    {Flatten(segments) : segments \in UNION {[1..n -> SharedSegments] : n \in 0..MaxSegments}}

Replaced(template, r) ==
    /\ parsed' = [op |-> "replace", template |-> template, returned |-> r.returned,
                  output |-> r.output, err |-> r.err, outcomes |-> r.outcomes]
    /\ heap' = Collect(r.heap, RefsOfChain(scopes))
    /\ UNCHANGED <<variables, scopes, caller, last>>

\* evaluatorTemplate(template, variables) of src/src/index.js, returning or raising
Replace(template) == Replaced(template, evaluatorTemplateShared(template, variables, heap))

NextShared ==
    \/ /\ parsed = NoTemplate
       /\ \E template \in SharedTemplates : Replace(template)
    \/ Release

SpecShared == Init /\ [][NextShared]_vars

(***************************************************************************)
(* The callers that hand the global scope frame to built-ins.              *)
(***************************************************************************)
GlobalScopeExpressions ==
    {Call(Dot(Id("Reflect"), "apply"),
          <<Dot(Id("Object"), "assign"), Lit(Null, "null"), ArrayExpr(<<Id("globalThis"), o>>)>>) :
        o \in {Id("src"), Id("obj")}}
      \cup {Call(Dot(Id("Object"), "assign"), <<Id("globalThis"), Id("src")>>),
            Call(Dot(Id("Reflect"), "apply"),
                 <<Dot(Id("Object"), "assign"), Lit(Null, "null"),
                   ArrayExpr(<<Id("obj"), Id("src")>>)>>),
            Id("a"), Id("b"), Id("Array"), Id("globalThis"),
            Dot(Id("globalThis"), "b"), Dot(Id("globalThis"), "Array"),
            Dot(Dot(Id("globalThis"), "globalThis"), "a"),
            Call(Arrow(<<Id("b")>>, Id("b")), <<one>>),
            Call(Arrow(<<Id("x")>>, Dot(Dot(Id("x"), "b"), "c")), <<one>>)}

NextGlobalScope ==
    \/ \E expression \in GlobalScopeExpressions : Evaluate(expression)
    \/ Discard

SpecGlobalScope == Init /\ [][NextGlobalScope]_vars

TypeOK == caller \in {"idle", "holding"} /\ Len(scopes) >= 2

(***************************************************************************)
(* The properties. last holds what the latest evaluate call did: the       *)
(* expression, the value or the error, the events of the handlers, and the *)
(* chain and heap before.                                                  *)
(***************************************************************************)
MutableMethodError == Err("Error", MUTABLE_METHOD)
FunctionConstructorError == Err("Error", FUNCTION_CONSTRUCTOR_NOT_ALLOWED)
NewFunctionError == Err("Error", NEW_FUNCTION_NOT_ALLOWED)
NotDefined(name) == Err("ReferenceError", name \o " is not defined")

\* the latest call applied f, by the evaluator or by a built-in
Invoked(f) == \E i \in DOMAIN last.log : last.log[i].ev = "invoke" /\ last.log[i].fn = f

\* the mutable method reached by each syntactic path: a static member, a
\* computed member, an alias in the context, an alias in a parameter
MutablePaths ==
    {Call(c, <<three>>) : c \in MutableCallees}
        \cup {Call(Arrow(<<Id("q")>>, Call(Id("q"), <<three>>)), <<Dot(arr, "push")>>)}

\* .call, .apply and .bind taken on the mutable method
MutableViaFunctionPrototype ==
    {Call(Dot(Dot(arr, "push"), "call"), <<arr, three>>),
     Call(Dot(Dot(arr, "push"), "apply"), <<arr, ArrayExpr(<<three>>)>>),
     Call(Dot(Dot(arr, "push"), "bind"), <<arr>>)}

CallerData(h) == Reach(h, {}, RefsOfChain(<<variables>>))

\* C2: after evaluate returns or raises, every object reachable from the
\* user context has the contents and the frozen status it had before
C2_NoSideEffectsOnCallerData ==
    caller = "holding" =>
        \A a \in CallerData(last.heapBefore) : heap[a] = last.heapBefore[a]

\* the callees that evaluate to the Function constructor: the identifier,
\* member paths, the global object's property
FunctionPaths ==
    {Id("Function"), Dot(Dot(arr, "slice"), "constructor"),
     Dot(Arrow(<<>>, one), "constructor"), Dot(Id("globalThis"), "Function")}

\* the value the callee of the latest call expression denotes: what it
\* evaluates to on its own, on the chain and heap the call started on
CalleeDenotes(f) ==
    /\ last.expr.type = "CallExpression"
    /\ LET r == evaluate(TextOf(last.expr.callee), <<ExprStmt(last.expr.callee)>>,
                           last.scopesBefore, last.heapBefore)
       IN  Ok(r) /\ r.v = f

C4_NewFunctionRejected ==
    /\ \A i \in DOMAIN last.log :
          LET e == last.log[i]
          IN  /\ e.ev = "new" => e.ctor # FunctionCtor
              /\ (e.ev = "invoke" /\ e.by = "evaluator" /\ e.new) => e.fn # FunctionCtor
    /\ last.expr \in {New(Id("Function"), <<>>), New(Id("Function"), <<Id("foo")>>)} =>
          last.err = NewFunctionError
    /\ (variables = AliasContext /\ last.expr = New(Id("F"), <<text>>)) =>
          last.err = NewFunctionError
    /\ last.expr = New(Dot(arr, "constructor"), <<>>) =>
          last.err = Err("Error", "Unsupported callee type 'MemberExpression' in new expression")

\* C5: in no evaluation is the Function constructor applied or constructed,
\* by the evaluator or by a built-in it was handed to; eval is not reachable
C5_NoDynamicCode ==
    /\ ~Invoked(FunctionCtor)
    /\ "eval" \notin DOMAIN createGlobalScope

\* the names the allow-list must not supply
ExcludedNames == {"eval", "setTimeout", "process", "require"}

\* C6: an identifier that is a name of no frame of the scope chain raises a
\* ReferenceError '<name> is not defined'; eval, setTimeout, process and
\* require are not defined when the context does not supply them, and
\* foo?.bar raises for an undefined foo
C6_UnresolvedIdentifierRaises ==
    /\ \A i \in DOMAIN last.log :
          LET e == last.log[i]
          IN  (e.ev = "identifier" /\ \A j \in DOMAIN e.chain : e.name \notin DOMAIN e.chain[j])
                  => e.err = NotDefined(e.name)
    /\ ExcludedNames \cap DOMAIN createGlobalScope = {}
    /\ \A name \in {"process", "require", "foo"} :
          last.expr = Id(name) => last.err = NotDefined(name)
    /\ last.expr = Call(Id("eval"), <<text>>) => last.err = NotDefined("eval")
    /\ last.expr = Call(Id("setTimeout"), <<text, one>>) => last.err = NotDefined("setTimeout")
    /\ last.expr = Chain(Member(Id("foo"), Id("bar"), FALSE, TRUE)) =>
          last.err = NotDefined("foo")

\* C6, witness: foo?.bar raised the ReferenceError 'foo is not defined'
C6_Witness ==
    /\ last.expr = Chain(Member(Id("foo"), Id("bar"), FALSE, TRUE))
    /\ last.err = Err("ReferenceError", "foo is not defined")

\* the left value alone decides the result of the operator
LeftDecides(operator, left) ==
    CASE operator = "&&" -> ~Truthy(left)
      [] operator = "||" -> Truthy(left)
      [] operator = "??" -> left # Null /\ left # Undef

\* C7: the right operand of a && b is not evaluated when a is falsy, of
\* a || b when a is truthy, of a ?? b when a is neither null nor undefined;
\* the result is then the left value itself, no function of the right operand
\* is called and an undefined identifier of the right operand raises nothing
C7_ShortCircuit ==
    \A i \in DOMAIN last.log :
        LET e == last.log[i]
        IN  (e.ev = "logical" /\ LeftDecides(e.operator, e.left)) =>
                /\ ~e.rightVisited
                /\ e.value = e.left
                /\ e.err = NoErr
                /\ last.expr.type = "LogicalExpression" =>
                      /\ last.value = e.left
                      /\ last.err = NoErr
                      /\ \A j \in DOMAIN last.log :
                            /\ last.log[j].ev # "invoke"
                            /\ last.log[j].ev = "identifier" => last.log[j].err = NoErr

\* C7, witness: 0 && foo.bar returned 0
C7_Witness ==
    /\ last.expr = Logical("&&", Lit(Num(0), "0"), Dot(Id("foo"), "bar"))
    /\ last.value = Num(0)
    /\ last.err = NoErr

\* C8: after any evaluate call, returned or raised, the scope chain of the
\* instance is exactly the user-context frame followed by the global frame
C8_ChainRestored == scopes = <<variables, createGlobalScope>>

\* C9: whenever an arrow function is invoked, its body resolves identifiers
\* against its own parameter frame followed by the frames that were on the
\* chain at its definition
C9_LexicalScope ==
    \A i \in DOMAIN last.log :
        last.log[i].ev = "arrowcall" =>
            last.log[i].chain = <<last.log[i].frame>> \o last.log[i].def

\* the value a chain gives a name: that of the first frame that has it
Resolve(chain, name) ==
    LET owners == {i \in DOMAIN chain : name \in DOMAIN chain[i]}
    IN  chain[CHOOSE i \in owners : \A j \in owners : i <= j][name]

\* C10: lookup takes the first frame of the chain that has the name, so a
\* parameter shadows a context variable or a global and a context variable
\* shadows a global; the shadowing by a parameter lasts only for the
\* invocation: afterwards every name of the context denotes the context's
\* value again
C10_ShadowingScopedToInvocation ==
    /\ \A i \in DOMAIN last.log :
          LET e == last.log[i]
          IN  (e.ev = "identifier" /\ e.err = NoErr) => e.value = Resolve(e.chain, e.name)
    /\ \A name \in DOMAIN variables : Resolve(scopes, name) = variables[name]

\* the TypeError of a read of property name on null or undefined
CannotRead(name, object) ==
    Err("TypeError", "Cannot read property '" \o name \o "' of "
                        \o (IF object = Null THEN "null" ELSE "undefined"))

\* C11: for a member access whose object evaluates to null or undefined, an
\* optional access yields undefined without error and a non-optional access
\* raises TypeError 'Cannot read property '<name>' of null|undefined'; for any
\* other object the access returns the property value, undefined when absent
C11_MemberAccessOnNullish ==
    /\ \A i \in DOMAIN last.log :
          LET e == last.log[i]
          IN  e.ev = "member" =>
                /\ (IsNullish(e.object) /\ e.optional) => e.value = Undef /\ e.err = NoErr
                /\ (IsNullish(e.object) /\ ~e.optional /\ e.keyed) =>
                        e.err = CannotRead(e.key, e.object)
                /\ (~IsNullish(e.object) /\ e.keyed) => e.err = NoErr
    /\ variables = AliasContext =>
          /\ last.expr = Dot(Id("obj"), "a") => last.err = NoErr /\ last.value = Num(1)
          /\ last.expr = Dot(Id("obj"), "missing") => last.err = NoErr /\ last.value = Undef
          /\ last.expr = Chain(Member(Id("n"), text, TRUE, TRUE)) =>
                last.err = NoErr /\ last.value = Undef
          /\ last.expr = Member(Id("n"), text, TRUE, FALSE) =>
                last.err = CannotRead("x", Null)

\* the text an expression node is written as, in the usual spacing
RECURSIVE SourceText(_)
SourceText(node) ==
    CASE node.type = "Identifier" -> node.name
      [] node.type = "Literal" -> node.raw
      [] node.type = "ChainExpression" -> SourceText(node.expression)
      [] node.type = "MemberExpression" ->
            SourceText(node.object)
               \o (IF node.computed
                   THEN (IF node.optional THEN "?.[" ELSE "[") \o SourceText(node.property) \o "]"
                   ELSE (IF node.optional THEN "?." ELSE ".") \o SourceText(node.property))
      [] node.type \in {"BinaryExpression", "LogicalExpression"} ->
            "(" \o SourceText(node.left) \o " " \o node.operator \o " "
                \o SourceText(node.right) \o ")"
      [] node.type = "ArrayExpression" ->
            LET joined[i \in 0..Len(node.elements)] ==
                    IF i = 0 THEN ""
                    ELSE joined[i - 1] \o (IF i > 1 THEN ", " ELSE "")
                            \o SourceText(node.elements[i])
            IN  "[" \o joined[Len(node.elements)] \o "]"
      [] OTHER -> "(intermediate value)"

NotAFunction(callee) == Err("TypeError", SourceText(callee) \o " " \o NOT_A_FUNCTION)

\* C12: a call whose callee is no function evaluates no argument; it yields
\* undefined without an error when the call or its callee member is optional
\* and the callee is null or undefined, and otherwise (an optional call of a
\* non-null value that is no function included) raises the TypeError
\* '<callee text> is not a function'.
C12_NonFunctionCallee ==
    \A i \in DOMAIN last.log :
        LET e == last.log[i]
        IN  (e.ev = "call" /\ ~IsFunction(e.func)) =>
              /\ e.visited = 0
              /\ ~e.applied
              /\ IF e.optional /\ IsNullish(e.func)
                 THEN e.err = NoErr
                 ELSE e.err = NotAFunction(e.callee)

\* C12, what the code does: the same, with the text that getNodeString gives
\* the callee
C12_NonFunctionCalleeByNodeString ==
    \A i \in DOMAIN last.log :
        LET e == last.log[i]
        IN  (e.ev = "call" /\ ~IsFunction(e.func)) =>
              /\ e.visited = 0
              /\ ~e.applied
              /\ IF e.optional /\ IsNullish(e.func)
                 THEN e.err = NoErr
                 ELSE e.err = Err("TypeError", getNodeString(e.callee) \o " " \o NOT_A_FUNCTION)
              /\ (last.expr \in NonFunctionCalls /\ i = Len(last.log)) =>
                    /\ last.err = e.err
                    /\ e.err = NoErr => last.value = Undef

\* the values that are a zero: the numbers +0 and -0, the values that convert
\* to +0, and the BigInt 0n
NumberZeros == {Num(0), NegZero, Null, Bool(FALSE), Str("")}
Zeros == NumberZeros \cup {BigInt(0)}

RECURSIVE Rebuild(_, _, _)
Rebuild(T, parser, tokens) ==
    IF tokens = <<>> THEN <<>>
    ELSE LET token == Head(tokens)
         IN  (IF token.type = "text" THEN token.value
              ELSE parser.exprStart \o Slice(T, token.contentStart, token.contentEnd)
                      \o parser.exprEnd)
                \o Rebuild(T, parser, Tail(tokens))

\* C16: parsed with preserveWhitespace true, the tokens of a template give the
\* template back: the values of the text tokens and the delimiter-wrapped
\* contents of the expression tokens, in order.
C16_RoundTrip ==
    (parsed.op = "parse" /\ parsed.options.preserveWhitespace = Bool(TRUE)) =>
        Rebuild(parsed.template, TemplateParser(parsed.options), parsed.tokens) = parsed.template

\* the latest call left the loop inside an expression: one opened and not closed
Unclosed == parsed.op = "parse" /\ parsed.end.state # "TEXT"

\* the open delimiter of the unclosed expression and all that follows it
UnclosedText ==
    Slice(parsed.template, parsed.end.exprStartPos, Len(parsed.template))

\* C17: an expression that is opened and not closed before the end of the
\* input is not dropped: the last token is a text token whose value is the open
\* delimiter followed by the partial content, also when that content is empty
\* and when a quoted string in it is not terminated.
C17_UnclosedExpressionKept ==
    Unclosed =>
        /\ parsed.tokens # <<>>
        /\ LET token == parsed.tokens[Len(parsed.tokens)]
           IN  /\ token.type = "text"
               /\ token.value = UnclosedText
               /\ token.value = TemplateParser(parsed.options).exprStart
                                   \o Slice(parsed.template, parsed.end.exprStartPos
                                               + TemplateParser(parsed.options).startLen,
                                            Len(parsed.template))

\* C17, what the code does: the same for an unclosed expression with content
C17_UnclosedExpressionWithContentKept ==
    (Unclosed /\ Len(UnclosedText) > TemplateParser(parsed.options).startLen) =>
        /\ parsed.tokens # <<>>
        /\ parsed.tokens[Len(parsed.tokens)] =
              TextToken(UnclosedText, parsed.end.exprStartPos, Len(parsed.template))

\* C16, what the code does: the round trip of the templates in which no
\* expression is empty and no open delimiter ends the input
C16_RoundTripOfKeptExpressions ==
    (/\ parsed.op = "parse"
     /\ parsed.options.preserveWhitespace = Bool(TRUE)
     /\ ~(Unclosed /\ parsed.end.buffer = <<>>)
     /\ LET parser == TemplateParser(parsed.options)
        IN  \A pos \in 0..Len(parsed.template) :
                ~isMatch(pos, parsed.template, parser.exprStart \o parser.exprEnd)) =>
        Rebuild(parsed.template, TemplateParser(parsed.options), parsed.tokens) = parsed.template

\* where position p of T stands for a reader of the expression that starts at
\* position from: the quote of the string p lies in ("none" outside the
\* strings), and whether the character at p is escaped by a backslash. In a
\* string a backslash escapes the next character and the string's quote ends
\* it. With outside, a backslash outside the strings escapes the next
\* character as well, and an escaped quote opens a string.
RECURSIVE ReadTo(_, _, _, _, _)
ReadTo(T, i, p, at, outside) ==
    IF i = p THEN at
    ELSE LET char == T[i + 1]
         IN  ReadTo(T, i + 1, p,
                    IF at.escaped
                    THEN [quote |-> IF at.quote = "none" /\ char \in Quotes THEN char
                                    ELSE at.quote,
                          escaped |-> FALSE]
                    ELSE IF char = "\\"
                         THEN [at EXCEPT !.escaped = at.quote # "none" \/ outside]
                    ELSE IF at.quote = "none" /\ char \in Quotes THEN [at EXCEPT !.quote = char]
                    ELSE IF at.quote = char THEN [at EXCEPT !.quote = "none"]
                    ELSE at,
                    outside)

\* the positions from which a close delimiter ends the expression that starts
\* at from
Closes(T, parser, from, outside) ==
    {p \in from..Len(T) :
        /\ isMatch(p, T, parser.exprEnd)
        /\ ReadTo(T, from, p, [quote |-> "none", escaped |-> FALSE], outside)
              = [quote |-> "none", escaped |-> FALSE]}

\* the expression tokens of the latest call end at the first close delimiter
\* outside the strings, and hold the text before it
EndsAtFirstClose(outside) ==
    parsed.op = "parse" =>
        \A i \in DOMAIN parsed.tokens :
            LET token == parsed.tokens[i]
                parser == TemplateParser(parsed.options)
                closes == Closes(parsed.template, parser, token.contentStart, outside)
                content == Slice(parsed.template, token.contentStart, token.contentEnd)
            IN  token.type = "expression" =>
                  /\ token.contentEnd \in closes
                  /\ \A p \in closes : token.contentEnd <= p
                  /\ token.value = (IF parser.preserveWhitespace THEN content ELSE trim(content))

\* C18, as stated: a close delimiter within a quoted string of an expression
\* (an escaped quote does not end the string) does not end the expression; the
\* token ends at the first close delimiter outside every string, and the quoted
\* text is part of its value.
C18_AsStated == EndsAtFirstClose(FALSE)

\* C18: the same, where outside the strings too a backslash makes the
\* tokenizer pass over the character after it (a quote after it opens a
\* string): the token ends at the first close delimiter that is outside every
\* string and does not begin with a character so passed over.
C18_CloseDelimiterInString == EndsAtFirstClose(TRUE)

\* C18: an expression token holds a close delimiter within a string
C18_Witness ==
    /\ parsed.op = "parse"
    /\ \E i \in DOMAIN parsed.tokens :
          LET token == parsed.tokens[i]
          IN  /\ token.type = "expression"
              /\ \E p \in token.contentStart..(token.contentEnd - 1) :
                    /\ isMatch(p, parsed.template, TemplateParser(parsed.options).exprEnd)
                    /\ ReadTo(parsed.template, token.contentStart, p,
                              [quote |-> "none", escaped |-> FALSE], FALSE).quote # "none"

\* the latest call parsed text, an expression of blanks only (of no character
\* at all when blanks is 0), and text: the splits of its template so
PlainText(chars) == \A i \in DOMAIN chars : chars[i] = "x"
BlankSplits(blanks) ==
    IF parsed.op # "parse" THEN {}
    ELSE LET parser == TemplateParser(parsed.options)
             T == parsed.template
         IN  {a \in 0..Len(T) :
                 /\ a + parser.startLen + blanks + parser.endLen <= Len(T)
                 /\ PlainText(Slice(T, 0, a))
                 /\ isMatch(a, T, parser.exprStart)
                 /\ \A i \in 1..blanks : T[a + parser.startLen + i] \in Whitespace
                 /\ isMatch(a + parser.startLen + blanks, T, parser.exprEnd)
                 /\ PlainText(Slice(T, a + parser.startLen + blanks + parser.endLen, Len(T)))}

\* the text tokens before and after an expression that gave no token
TextAround(a, b) ==
    (IF a > 0 THEN <<TextToken(Slice(parsed.template, 0, a), 0, a)>> ELSE <<>>)
       \o (IF b < Len(parsed.template)
           THEN <<TextToken(Slice(parsed.template, b, Len(parsed.template)), b,
                            Len(parsed.template))>>
           ELSE <<>>)

\* the expressions of so many blanks give no token, and the text before and
\* after them is emitted
BlankExpressionsDropped(blanks) ==
    \A a \in BlankSplits(blanks) :
        parsed.tokens = TextAround(a, a + TemplateParser(parsed.options).startLen + blanks
                                        + TemplateParser(parsed.options).endLen)

IsUndefinedIdentifier(err) ==
    \E name \in TemplateNames(parsed.template) : err = NotDefined(name)

\* the expression tokens of the latest call, by their index
ExpressionTokens == {i \in DOMAIN parsed.tokens : parsed.tokens[i].type = "expression"}

\* what a token contributes to the output, at the outcome of its evaluation
Contribution(i) ==
    LET outcome == CHOOSE o \in {parsed.outcomes[j] : j \in DOMAIN parsed.outcomes} : o.token = i
    IN  IF parsed.tokens[i].type = "text" THEN Text(parsed.tokens[i].value)
        ELSE IF outcome.err = NoErr THEN ToStr(heap, outcome.value)
        ELSE PLACEHOLDER

RECURSIVE Concatenation(_)
Concatenation(i) == IF i = 0 THEN "" ELSE Concatenation(i - 1) \o Contribution(i)

\* the token evaluations of the latest call that raised another error than
\* that of an undefined identifier
Fatal ==
    {j \in DOMAIN parsed.outcomes :
        parsed.outcomes[j].err # NoErr /\ ~IsUndefinedIdentifier(parsed.outcomes[j].err)}

\* C14: the renderer recovers from one error: an expression token that raises
\* the ReferenceError of an undefined identifier is replaced by the placeholder
\* and the remaining tokens are rendered; any other error of an expression
\* token (SyntaxError, TypeError, the error of a blocked capability) leaves
\* the render call, which returns no output.
C14_RecoversFromUndefinedIdentifier ==
    parsed.op = "render" =>
        /\ \A j \in DOMAIN parsed.outcomes :
              parsed.outcomes[j] =
                 LET r == staticEvaluate(parsed.tokens[parsed.outcomes[j].token].value,
                                         variables, heap)
                 IN  [token |-> parsed.outcomes[j].token, value |-> r.v, err |-> r.err]
        /\ IF Fatal = {}
           THEN /\ parsed.returned
                /\ parsed.err = NoErr
                /\ {parsed.outcomes[j].token : j \in DOMAIN parsed.outcomes} = ExpressionTokens
                /\ parsed.output = Concatenation(Len(parsed.tokens))
           ELSE /\ ~parsed.returned
                /\ Fatal = {Len(parsed.outcomes)}
                /\ parsed.err = parsed.outcomes[Len(parsed.outcomes)].err

\* C14: a template has been rendered in which an undefined identifier gave
\* the placeholder and the expression after it was rendered too
C14_Witness ==
    /\ parsed.op = "render"
    /\ parsed.returned
    /\ \E j \in DOMAIN parsed.outcomes :
          /\ parsed.outcomes[j].err = NotDefined("foo")
          /\ j < Len(parsed.outcomes)
          /\ parsed.outcomes[Len(parsed.outcomes)].err = NoErr

\* the template of the latest call holds no complete expression: no open
\* delimiter with a close delimiter after it
NoCompleteExpression ==
    ~\E a \in 0..Len(parsed.template), b \in 0..Len(parsed.template) :
        /\ isMatch(a, parsed.template, DefaultStart)
        /\ isMatch(b, parsed.template, DefaultEnd)
        /\ a + Len(DefaultStart) <= b

\* C15: the output is the concatenation, in order, of the text outside the
\* expressions and of the string of each expression's value; a template that
\* holds no complete expression renders to itself.
C15_RenderedOutput ==
    parsed.op = "render" =>
        /\ parsed.returned => parsed.output = Concatenation(Len(parsed.tokens))
        /\ NoCompleteExpression => parsed.returned /\ parsed.output = Text(parsed.template)

\* C15, what the code does: the output is the concatenation of the tokens,
\* and a template without an open delimiter renders to itself
C15_RenderedTokens ==
    parsed.op = "render" =>
        /\ parsed.returned => parsed.output = Concatenation(Len(parsed.tokens))
        /\ (\A a \in 0..Len(parsed.template) : ~isMatch(a, parsed.template, DefaultStart)) =>
              parsed.returned /\ parsed.output = Text(parsed.template)

(***************************************************************************)
(* The properties of the default case of visit, under SpecSource.          *)
(***************************************************************************)
\* the text an error quotes for a node: whole up to 20 characters, the first 17
\* and '...' beyond
Quoted(chars) ==
    IF Len(chars) > 20 THEN SubSeq(chars, 1, 17) \o <<".", ".", ".">> ELSE chars

\* the error the claim gives a node of an unrecognized kind, of the text last.source
NotValidSyntax(node) ==
    Err("Error", "'" \o Text(Quoted(Slice(last.source, node.start, node.end)))
                    \o "' is not a valid syntax")

\* the visits of a node of an unrecognized kind in the last call
UnsupportedVisits ==
    IF "source" \in DOMAIN last
    THEN {i \in DOMAIN last.log : last.log[i].ev = "unsupported"}
    ELSE {}

\* C21: a node of an unrecognized kind raises an error whose message is the
\* node's source text in single quotes (the first 17 characters and '...' when
\* longer than 20) followed by 'is not a valid syntax', at whatever point the
\* node is visited: in an arrow body called after the evaluate call that made
\* the closure returned, and after a nested evaluate call completed.
C21_UnsupportedSyntax ==
    \A i \in UnsupportedVisits :
        /\ last.log[i].err = NotValidSyntax(last.log[i].node)
        /\ last.err = last.log[i].err

\* C21, while this.source is the text of the node: the node is visited before
\* the evaluate call of its text is left and with no other evaluate call in between
C21_UnsupportedSyntaxWhileEvaluating ==
    \A i \in UnsupportedVisits :
        (/\ last.expr.type # "invoke"
         /\ \A j \in 1..i : ~(last.log[j].ev = "invoke"
                                /\ last.log[j].fn = Native("context.evaluate")))
        => /\ last.log[i].err = NotValidSyntax(last.log[i].node)
           /\ last.err = last.log[i].err

\* C21: the body of a closure holding an assignment of 24 characters was
\* visited by a built-in of the evaluation that made it, and the text was cut
C21_Witness ==
    /\ UnsupportedVisits # {}
    /\ last.expr.type = "CallExpression"
    /\ last.err = Err("Error", "'a = aaaaaaaaaaaaa...' is not a valid syntax")

(***************************************************************************)
(* The properties of the parameters of arrow functions, under Spec.        *)
(***************************************************************************)
\* the invocations of closures in the last call
ArrowCalls == {i \in DOMAIN last.log : last.log[i].ev = "arrowcall"}

HasRestParameter(params) == \E p \in DOMAIN params : params[p].type = "RestElement"

\* C22: a call of an arrow function declared with a rest parameter raises an
\* error, for every body and argument list; with simple parameters a missing
\* argument binds undefined and extra arguments are ignored.
C22_RestParameterRejected ==
    \A i \in ArrowCalls :
        LET call == last.log[i]
        IN  IF HasRestParameter(call.params) THEN call.err # NoErr
            ELSE /\ DOMAIN call.frame = {call.params[p].name : p \in DOMAIN call.params}
                 /\ \A p \in DOMAIN call.params :
                       (\A q \in DOMAIN call.params :
                            call.params[q].name = call.params[p].name => q <= p)
                       => call.frame[call.params[p].name] = Arg(call.args, p)

\* C22, the simple parameters alone: a missing argument binds undefined and
\* extra arguments are ignored
C22_SimpleParameters ==
    \A i \in ArrowCalls :
        LET call == last.log[i]
        IN  ~HasRestParameter(call.params) =>
                /\ DOMAIN call.frame = {call.params[p].name : p \in DOMAIN call.params}
                /\ \A p \in DOMAIN call.params :
                      (\A q \in DOMAIN call.params :
                           call.params[q].name = call.params[p].name => q <= p)
                      => call.frame[call.params[p].name] = Arg(call.args, p)

\* C22: an arrow function with a rest parameter was called with two arguments
\* and returned the value of its body
C22_RestParameterAccepted ==
    /\ last.expr = Call(Arrow(<<Rest(Id("r"))>>, one), <<one, three>>)
    /\ last.err = NoErr
    /\ last.value = Num(1)

C24_GlobalFrameImmutable == GlobalFrame(scopes) = createGlobalScope

\* C24, the names of createGlobalScope alone: none of them is removed or rebound
C24_GlobalNamesKept ==
    \A key \in DOMAIN createGlobalScope :
        key \in DOMAIN GlobalFrame(scopes) /\ GlobalFrame(scopes)[key] = createGlobalScope[key]

\* C24: a name of a context object has become a global name, and an
\* identifier of no other frame resolved to it
C24_GlobalNameAdded ==
    /\ "b" \in DOMAIN GlobalFrame(scopes)
    /\ last.expr = Id("b")
    /\ last.err = NoErr
    /\ last.value = Num(2)

(***************************************************************************)
(* The properties of preserveWhitespace, under SpecParser.                 *)
(***************************************************************************)
\* value is content without its leading and trailing whitespace
IsTrimOf(value, content) ==
    /\ value # <<>> => value[1] \notin Whitespace /\ value[Len(value)] \notin Whitespace
    /\ \E a \in 0..Len(content) :
          /\ a + Len(value) <= Len(content)
          /\ SubSeq(content, a + 1, a + Len(value)) = value
          /\ \A i \in DOMAIN content :
                (i <= a \/ i > a + Len(value)) => content[i] \in Whitespace

\* the text tokens among tokens
TextTokens(tokens) == SelectSeq(tokens, LAMBDA token : token.type = "text")

\* the runs [a, b) of whitespace of the parsed template that begin at its start
\* or where an expression token ends, and end at its end or at an open delimiter
WhitespaceRuns ==
    {run \in (0..Len(parsed.template)) \X (0..Len(parsed.template)) :
        /\ run[1] < run[2]
        /\ \A i \in (run[1] + 1)..run[2] : parsed.template[i] \in Whitespace
        /\ \/ run[1] = 0
           \/ \E i \in DOMAIN parsed.tokens :
                 parsed.tokens[i].type = "expression" /\ parsed.tokens[i].end = run[1]
        /\ \/ run[2] = Len(parsed.template)
           \/ isMatch(run[2], parsed.template, TemplateParser(parsed.options).exprStart)}

MethodCalls ==
    {i \in DOMAIN last.log :
        /\ last.log[i].ev = "call"
        /\ last.log[i].applied
        /\ last.log[i].callee.type = "MemberExpression"}

\* the times the call expression of callee g applied its function in the last call
TimesCalled(g) ==
    Cardinality({j \in DOMAIN last.log :
                    last.log[j].ev = "call" /\ last.log[j].applied /\ last.log[j].callee = g})

\* C26: in a method call o.m(args) the receiver o is evaluated once per call,
\* and the this the function is applied to is the very value m was read from:
\* a function called in the receiver expression runs once.
C26_ReceiverEvaluatedOnce ==
    /\ \A i \in MethodCalls : last.log[i].this = last.log[i].readFrom
    /\ (/\ last.expr.type = "CallExpression"
        /\ last.expr.callee.type = "MemberExpression"
        /\ last.expr.callee.object.type = "CallExpression"
        /\ last.err = NoErr)
       => TimesCalled(last.expr.callee.object.callee) = 1

\* C26, for a receiver that is an identifier: the function is applied to the
\* value it was read from
C26_IdentifierReceiver ==
    \A i \in MethodCalls :
        last.log[i].callee.object.type = "Identifier"
            => last.log[i].this = last.log[i].readFrom

\* C26: arr.slice().map(v => v) returned, and arr.slice was called three times
C26_ReceiverEvaluatedThrice ==
    /\ last.expr.type = "CallExpression"
    /\ last.expr.callee = Dot(Call(Dot(arr, "slice"), <<>>), "map")
    /\ last.err = NoErr
    /\ TimesCalled(Dot(arr, "slice")) = 3

(***************************************************************************)
(* The properties of evaluatorTemplate of src/src/index.js, under          *)
(* SpecShared.                                                             *)
(***************************************************************************)
\* the outcome of an expression evaluated by an Evaluator of its own
Alone(expression) == staticEvaluate(expression, variables, heap)

\* C27: within one render, whose expressions share one Evaluator, the text
\* substituted for an expression depends on the expression and the context
\* only, not on the expressions evaluated before it: its outcome is the one of
\* the expression evaluated alone, and an identifier bound neither in the
\* context nor in the globals gives the placeholder also after an expression
\* that called an arrow function with a parameter of that name whose body raised.
C27_IndependentOfEarlierExpressions ==
    parsed.op = "replace" =>
        \A i \in DOMAIN parsed.outcomes :
            /\ parsed.outcomes[i].err = Alone(parsed.outcomes[i].expression).err
            /\ parsed.outcomes[i].value = Alone(parsed.outcomes[i].expression).v

\* C27, for the expressions evaluated on the chain of a new Evaluator
C27_OnTheChainOfANewEvaluator ==
    parsed.op = "replace" =>
        \A i \in DOMAIN parsed.outcomes :
            parsed.outcomes[i].chain = <<variables, createGlobalScope>> =>
                /\ parsed.outcomes[i].err = Alone(parsed.outcomes[i].expression).err
                /\ parsed.outcomes[i].value = Alone(parsed.outcomes[i].expression).v

\* C27: the template {{(a=>foo)(1)}}{{a}} was rendered and gave "1"
C27_ParameterLeaked ==
    /\ parsed.op = "replace"
    /\ Len(parsed.outcomes) = 2
    /\ parsed.outcomes[1].expression = <<"(", "a", "=", ">", "f", "o", "o", ")", "(", "1", ")">>
    /\ parsed.outcomes[2].expression = <<"a">>
    /\ parsed.returned
    /\ parsed.output = "1"

(***************************************************************************)
(* The properties of optional chains, under Spec.                          *)
(***************************************************************************)
\* an optional link of the last call found null or undefined
ShortCircuited ==
    \E i \in DOMAIN last.log :
        \/ /\ last.log[i].ev = "member"
           /\ last.log[i].optional
           /\ IsNullish(last.log[i].object)
        \/ /\ last.log[i].ev = "call"
           /\ last.log[i].optional
           /\ IsNullish(last.log[i].func)

\* the computed property of a chain a?.[k()], when k() is a call expression
ComputedCall(chain) ==
    /\ chain.expression.type = "MemberExpression"
    /\ chain.expression.optional
    /\ chain.expression.computed
    /\ chain.expression.property.type = "CallExpression"

\* C28: when an optional link of a chain finds null or undefined, the whole
\* chain yields undefined: the accesses and calls that follow the link (a?.b.c,
\* a?.b.c()) are skipped and raise nothing, and the computed property of the
\* link (a?.[k()]) is not evaluated.
C28_ChainShortCircuits ==
    (last.expr.type = "ChainExpression" /\ ShortCircuited) =>
        /\ last.err = NoErr
        /\ last.value = Undef
        /\ ComputedCall(last.expr) => TimesCalled(last.expr.expression.property.callee) = 0

\* C28, for a chain whose optional link is its last and whose property is a
\* name or a literal: the chain yields undefined
C28_LastLinkShortCircuits ==
    (/\ last.expr.type = "ChainExpression"
     /\ ShortCircuited
     /\ \/ /\ last.expr.expression.type = "MemberExpression"
           /\ last.expr.expression.optional
           /\ ~last.expr.expression.computed \/ last.expr.expression.property.type = "Literal"
        \/ /\ last.expr.expression.type = "CallExpression"
           /\ last.expr.expression.optional
           /\ last.expr.expression.arguments = <<>>)
    => last.err = NoErr /\ last.value = Undef

\* C28: n?.bar.c, n null, raised the TypeError of the access that follows the link
C28_ChainRaised ==
    /\ last.expr = Chain(Dot(Member(Id("n"), Id("bar"), FALSE, TRUE), "c"))
    /\ ShortCircuited
    /\ last.err = CannotRead("c", Undef)

(***************************************************************************)
(* The properties of identifiers and inherited names, under Spec.          *)
(***************************************************************************)
\* the names the frames inherit from Object.prototype
InheritedNames == DOMAIN HostOwn("Object.prototype")

\* C29: the resolution of an identifier consults the own properties of each
\* frame only: a name that no frame owns raises ReferenceError '<name> is not
\* defined', the names the frames inherit from their prototype (toString,
\* constructor, hasOwnProperty) included, and the value of a name that resolves
\* is the own property of the first frame that owns it.
C29_OwnPropertiesOnly ==
    /\ {"toString", "constructor", "hasOwnProperty"} \subseteq InheritedNames
    /\ \A i \in DOMAIN last.log :
          LET e == last.log[i]
              owners == {j \in DOMAIN e.chain : e.name \in DOMAIN e.chain[j]}
          IN  e.ev = "identifier" =>
                IF owners = {}
                THEN e.err = Err("ReferenceError", e.name \o " is not defined")
                ELSE /\ e.err = NoErr
                     /\ \E j \in owners :
                           /\ \A k \in owners : j <= k
                           /\ e.value = e.chain[j][e.name]
    /\ \A name \in InheritedNames :
          (last.expr = Id(name) /\ name \notin DOMAIN variables)
              => last.err = Err("ReferenceError", name \o " is not defined")

\* C29: toString raised 'toString is not defined' in the body of a closure,
\* whose frame inherits it
C29_Witness ==
    /\ last.expr = Call(Arrow(<<Id("a")>>, Id("toString")), <<one>>)
    /\ last.err = Err("ReferenceError", "toString is not defined")
    /\ \E i \in DOMAIN last.log :
          /\ last.log[i].ev = "identifier"
          /\ last.log[i].name = "toString"
          /\ Len(last.log[i].chain) > 2

(***************************************************************************)
(* The properties of the loop of parse, under SpecLoop.                    *)
(***************************************************************************)
\* every turn of the loop advances pos by one at least
TurnAdvances ==
    (parsed.op = "loop" /\ parsed'.op = "loop") => parsed'.s.pos >= parsed.s.pos + 1

\* the tokens are no more than the characters read, and than the characters of
\* the template when parse has returned
TokensBounded ==
    /\ parsed.op = "loop" =>
          /\ Len(parsed.s.tokens) <= parsed.s.pos
          /\ TemplateParser(parsed.options).startLen >= 1
          /\ TemplateParser(parsed.options).endLen >= 1
    /\ parsed.op = "parse" => Len(parsed.tokens) <= Len(parsed.template)

\* C30: parse terminates on every template and every configuration of the
\* delimiters: every turn of its loop advances pos by one at least (a delimiter
\* option that is the empty string falls back to the default, so that no
\* delimiter is of length 0), a call that is entered returns, and the tokens are
\* never more than the characters of the template.
C30_ParseTerminates ==
    /\ [][TurnAdvances]_vars
    /\ []TokensBounded
    /\ (parsed.op = "loop") ~> (parsed.op = "parse")

\* C30: with the delimiter options empty, parse returned from a template that
\* is one expression between the default delimiters, with one token
C30_Witness ==
    /\ parsed.op = "parse"
    /\ parsed.options.expressionStart = <<>>
    /\ parsed.options.expressionEnd = <<>>
    /\ parsed.end.pos = Len(parsed.template)
    /\ Len(parsed.template) = 5
    /\ Len(parsed.tokens) = 1
    /\ parsed.tokens[1].type = "expression"
====
